---- MODULE Spec2Model ----
(***************************************************************************)
(* Session controller of PerfTrace (src/src/lib/playwrightUtils.ts).       *)
(*                                                                         *)
(* The engine runs on one JavaScript event loop: code between two awaits   *)
(* is atomic, and every await is a point where other calls, interval       *)
(* ticks and event handlers may run.  Each action below is one such        *)
(* atomic stretch of startRecording, stopRecording, an interval callback   *)
(* or an event handler.  Remote calls (browser, CDP, file system) succeed  *)
(* or fail nondeterministically; a call that never resolves is a call      *)
(* whose step is never taken.                                              *)
(*                                                                         *)
(* A session is identified by the startRecording call that created it:     *)
(* browser[s], samples[s], ... are the objects and arrays of the closure   *)
(* of call s, and a page is the pair <<context, index>>.  Sequences hold   *)
(* the page an entry was taken from.  The viewport interval, which only    *)
(* sends setViewportSize, is left out.                                     *)
(***************************************************************************)
EXTENDS Naturals, Integers, Sequences, FiniteSets, TLC

\* ----------------------------------------------------------------- bounds
\* Number of StartSession/StopSession calls issued in one behaviour.
MaxCalls == 3
\* Number of calls that may be pending (issued and not yet returned) together.
MaxPending == 2
\* Number of environment events (interval firings, notifications).
MaxEvents == 2
\* Pages per browser context (the first page plus tabs opened later).
MaxTabs == 2
\* Ticks of one interval loop that may be in flight together.
MaxInFlight == 1
\* Non-final chunks IO.read may deliver.
MaxChunks == 1
\* Screenshot callbacks that may be awaiting page.screenshot together when a
\* capture takes longer than the 3-second interval.
MaxOverlap == 2

\* getLiveMetrics / getLatestVideo calls issued in one behaviour.
MaxQueries == 2
\* Points of one input series (fallback samples, trace counter points).
MaxPoints == 2
\* Pages of the context whose documents are followed (the first page plus
\* tabs opened mid-session).
MaxOpened == 3
\* Events of one decoded trace.
MaxTraceEvents == 3
\* Long tasks the in-page observer has collected.
MaxLongTasks == 3
\* Points of the frame-rate series the suggestion rules average.
MaxFpsPoints == 2
\* Screenshots at hand when the spike frames are built.
MaxShots == 2
\* Requests the request handlers of a session pushed.
MaxRequests == 2
\* Lines of one trace payload.
MaxLines == 3
\* Samples the in-page frame counters push in one behaviour.
MaxFrames == 2
\* Metrics-loop ticks of one behaviour that get as far as a reading.
MaxSamples == 4
\* Seconds of main-thread work a page's TaskDuration counter may reach.
MaxWork == 2

\* The screenshot loop stops capturing at this many screenshots.
MaxScreenshots == 12

Calls == 1..MaxCalls

\* URLs handed to StartSession.
Urls == {"https://example.com/", "http://example.com", "ftp://example.com", "example.com"}

VARIABLES
    activeSession,       \* the module-level session slot (NoSession = null)
    lastVideoPath,       \* the module-level video reference (0 = null)
    issued,              \* number of calls issued so far
    kind,                \* kind[c]: "none", "start" or "stop"
    pc,                  \* pc[c]: the await call c is suspended at
    result,              \* result[c]: what call c returned or threw
    argHttp,             \* argHttp[c]: the url argument of start c is an http(s) URL
    unlinkTarget,        \* the path startRecording is unlinking
    issuedWhileDraining, \* sessions that were draining when start c was issued
    claimed,             \* claimed[c]: the session record stop c destructured
    failure,             \* failure[c]: "none", or what threw in stop c ("drain", "unlink")
    closeTried,          \* closeTried[c]: close calls stop c has attempted
    chunksRead,          \* chunksRead[c]: non-final chunks read so far by the read loop of stop c
    reportKind,          \* reportKind[c]: "trace" or "fallback"
    browser,             \* browser[s]: "none", "open" or "closed"
    context,             \* context[s]: "none", "open" or "closed"
    tabs,                \* tabs[s]: pages opened in context s
    videoFile,           \* videoFile[s]: "none", "exists" or "deleted"
    recordingStartSet,   \* recordingStartMs of closure s is initialised
    animHandler,         \* Animation.animationStarted handler subscribed
    ctxHandlers,         \* context.on page/request handlers subscribed
    intervals,           \* the interval timers of closure s are armed
    samples,             \* samples[s]: the PerfSample array
    fpsSamples,          \* fpsSamples[s]
    screenshots,         \* screenshots[s]
    networkRequests,     \* networkRequests[s]
    collectedAnimations, \* collectedAnimations[s]
    sampleTicks,         \* in-flight metrics-loop callbacks of closure s
    shotTicks,           \* in-flight screenshot-loop callbacks of closure s
    tabInstalling,       \* updateActivePage calls before Performance.enable
    tabLinking,          \* updateActivePage calls after Performance.enable
    reqInFlight,         \* onRequestEnd handlers awaiting request.response()
    events,              \* environment events so far
    queries,             \* getLiveMetrics/getLatestVideo calls issued so far
    liveReads,           \* getLiveMetrics calls awaiting session.page.evaluate
    liveOut,             \* what the getLiveMetrics call that returned last returned
    videoReads,          \* getLatestVideo calls awaiting fs.readFile
    videoOut,            \* what the getLatestVideo call that returned last returned
    videoFound,          \* videoFound[d]: selectBestVideoPath of stop d returned a path
    stage,               \* report pipeline: "off", "input", "built", "frames" or "normalized"
    metric,              \* the series of the report a pipeline run follows
    startedAt,           \* session.startedAt (ms)
    stoppedAt,           \* stopRequestedAt (ms)
    rawTraceSpan,        \* endTs - startTs of the trace events (native units)
    traceBucket,         \* fpsMap, cpuBusyMap or gpuBusyMap: second -> value
    tracePoints,         \* memoryPoints or domPoints of the trace
    fallback,            \* fallback.fpsSamples, or fallback.samples seen through the metric's field
    report,              \* the PerfReport: durationMs and the metric's series
    initScripts,         \* initScripts[s][p]: the addInitScript collectors are registered on page p
    doc,                 \* doc[s][p]: the collectors of the document page p shows
    captured,            \* captured[s]: the samples the in-page frame counters pushed so far
    linkOrder,           \* linkOrder[s]: pages in the order updateActivePage reached its assignment
    lastPerfTotals,      \* lastPerfTotals[s]: the totals of the tick that pushed last (Undefined at first)
    taskDuration,        \* taskDuration[s][p]: the cumulative TaskDuration counter of page p (s)
    traceEvents,         \* the events parseTraceEvents returned
    cursor,              \* events the extraction loop of parseTrace has processed
    longTasks,           \* longTasks of parseTrace
    cpuBusyMap,          \* cpuBusyMap of parseTrace: second -> busy ms
    clientCollector,     \* what readClientCollectorSnapshot returned (NoCollector = null)
    webVitals,           \* report.webVitals
    ruleInputs,          \* the figures of one report the suggestion rules read
    suggestions,         \* report.suggestions, the titles in the order pushed
    traceText,           \* the payload handed to parseTraceEvents, line by line
    lineCursor,          \* lines of the newline-delimited fallback already read
    animations,          \* report.animationMetrics.animations
    spikeFrames,         \* report.spikeFrames ("pending" until buildSpikeFrames returned)
    network,             \* report.networkSummary and report.networkRequests
    traceStream          \* the trace stream of the browser and what readTraceStream did with it


queryVars == <<queries, liveReads, liveOut, videoReads, videoOut, videoFound>>
reportVars == <<stage, metric, startedAt, stoppedAt, rawTraceSpan, traceBucket,
                tracePoints, fallback, report>>
sessionVars == <<activeSession, lastVideoPath, issued, kind, pc, result, argHttp, unlinkTarget,
                 issuedWhileDraining, claimed, failure, closeTried, chunksRead, reportKind,
                 browser, context, tabs, videoFile,
                 recordingStartSet, animHandler, ctxHandlers, intervals, samples, fpsSamples,
                 screenshots, networkRequests, collectedAnimations, sampleTicks, shotTicks,
                 tabInstalling, tabLinking, reqInFlight, events>>

pageVars == <<initScripts, doc, captured, linkOrder, lastPerfTotals, taskDuration>>

analysisVars == <<traceEvents, cursor, longTasks, cpuBusyMap, clientCollector, webVitals,
                  ruleInputs, suggestions, traceText, lineCursor, animations, spikeFrames,
                  network, traceStream>>

vars == <<sessionVars, queryVars, reportVars, pageVars, analysisVars>>

\* ---------------------------------------------------------------- helpers
NoPage == <<0, 0>>

\* activeSession = null.
NoSession == [sid |-> 0, page |-> NoPage, metricsCdp |-> NoPage]

\* The session object startRecording publishes: its own browser, context,
\* arrays and timers (sid) and the first page with its metrics link.
NewSession(s) == [sid |-> s, page |-> <<s, 1>>, metricsCdp |-> <<s, 1>>]

\* new URL(value).protocol, or "unparsable" when the constructor throws.
UrlProtocol(value) ==
    CASE value = "https://example.com/" -> "https:"
      [] value = "http://example.com" -> "http:"
      [] value = "ftp://example.com" -> "ftp:"
      [] OTHER -> "unparsable"

UrlValidAnyScheme(value) == UrlProtocol(value) # "unparsable"

\* ensureValidUrl returns (TRUE) or throws (FALSE).
ensureValidUrl(value) == UrlProtocol(value) \in {"http:", "https:"}

StartGuardNever(session) == FALSE

\* startRecording: if (activeSession) throw.
StartGuard(session) == session # NoSession

StopGuardNever(session) == FALSE

\* stopRecording: if (!activeSession) throw.
StopGuard(session) == session = NoSession

SlotAfterClaimKept(session) == session

\* stopRecording: activeSession = null, in the same atomic stretch as the guard.
SlotAfterClaim(session) == NoSession

TeardownPcSkippedOnError(failed) == IF failed THEN "rethrow" ELSE "closeContext"

\* stopRecording: try { drain } finally { close }: the close calls run on the
\* normal and on the exceptional path.
TeardownPc(failed) == "closeContext"

\* A remote call on a page can succeed only while its browser is alive.
PageAlive(page) == page # NoPage /\ browser[page[1]] = "open" /\ context[page[1]] = "open"

\* A stop call has destructured session s.
ClaimedBy(d, s) == kind[d] = "stop" /\ claimed[d] # NoSession /\ claimed[d].sid = s

Claimed(s) == \E d \in Calls : ClaimedBy(d, s)

\* A stop call that claimed session s has not yet tried to close its browser.
Draining(s) ==
    \E d \in Calls :
        ClaimedBy(d, s) /\ kind[d] = "stop" /\ claimed[d] # NoSession
                        /\ "browser" \notin closeTried[d]

CanSuspend == Cardinality({c \in Calls : pc[c] \notin {"idle", "done"}}) < MaxPending

RemoveAt(seq, i) == SubSeq(seq, 1, i - 1) \o SubSeq(seq, i + 1, Len(seq))

Finish(c, r) ==
    /\ pc' = [pc EXCEPT ![c] = "done"]
    /\ result' = [result EXCEPT ![c] = r]

Goto(c, label) ==
    /\ pc' = [pc EXCEPT ![c] = label]
    /\ UNCHANGED result

\* No getLiveMetrics or getLatestVideo call has been made.
QueryIdle ==
    /\ queries = 0
    /\ liveReads = {}
    /\ liveOut = [ret |-> "none", fps |-> "null", sid |-> 0, last |-> 0]
    /\ videoReads = {}
    /\ videoOut = [ret |-> "none", path |-> 0]
    /\ videoFound = [d \in Calls |-> FALSE]

\* builder: "parseTrace" or "buildFallbackReport"; source: "trace",
\* "fallback", or "single" for the GPU line drawn from a single trace bucket.
NoReport == [builder |-> "none", durationMs |-> 0, source |-> "none", points |-> <<>>]

\* No report is being built.
ReportOff ==
    /\ stage = "off"
    /\ metric = "none"
    /\ startedAt = 0
    /\ stoppedAt = 0
    /\ rawTraceSpan = 0
    /\ traceBucket = <<>>
    /\ tracePoints = <<>>
    /\ fallback = <<>>
    /\ report = NoReport

Pages == 1..MaxOpened

\* A document as the browser creates it on a page where no init script is
\* registered: collector stands for window.__perftraceCollector and
\* window.__perftraceMemory, fps for window.__perftrace, samples for
\* window.__perftrace.samples.
FreshDocument == [collector |-> FALSE, fps |-> FALSE, samples |-> <<>>]

\* No page has been instrumented.
PagesFresh ==
    /\ initScripts = [s \in Calls |-> [p \in Pages |-> FALSE]]
    /\ doc = [s \in Calls |-> [p \in Pages |-> FreshDocument]]
    /\ captured = [s \in Calls |-> {}]
    /\ linkOrder = [s \in Calls |-> <<>>]
    /\ lastPerfTotals = [s \in Calls |-> 0 - 1]
    /\ taskDuration = [s \in Calls |-> [p \in Pages |-> 0]]

\* readClientCollectorSnapshot returned null.
NoCollector == [snapshot |-> FALSE, longTasks |-> <<>>]

\* networkSummary and networkRequests of a report not built yet.
NoNetwork == [requests |-> 0, totalBytes |-> 0, averageLatencyMs |-> 0, networkRequests |-> <<>>]

\* No trace stream: the chunks the browser holds, the IO.read commands
\* answered, whether Tracing.tracingComplete came, the IO.close commands sent.
NoStream == [chunks |-> <<>>, reads |-> 0, complete |-> FALSE, closes |-> 0]

\* No trace is being analysed.
AnalysisOff ==
    /\ traceEvents = <<>>
    /\ cursor = 0
    /\ longTasks = <<>>
    /\ cpuBusyMap = <<>>
    /\ clientCollector = NoCollector
    /\ webVitals = [tbtMs |-> 0, longTaskCount |-> 0, longTaskTotalMs |-> 0]
    /\ ruleInputs = [traceParsed |-> FALSE]
    /\ suggestions = <<>>
    /\ traceText = <<>>
    /\ lineCursor = 0
    /\ animations = <<>>
    /\ spikeFrames = <<>>
    /\ network = NoNetwork
    /\ traceStream = NoStream

\* startRecording(1) has instrumented and loaded the first page.
PagesRecording ==
    /\ initScripts = [s \in Calls |-> [p \in Pages |-> s = 1 /\ p = 1]]
    /\ doc = [s \in Calls |-> [p \in Pages |->
                 IF s = 1 /\ p = 1 THEN [collector |-> TRUE, fps |-> TRUE, samples |-> <<>>] ELSE FreshDocument]]
    /\ captured = [s \in Calls |-> {}]
    /\ linkOrder = [s \in Calls |-> <<>>]
    /\ lastPerfTotals = [s \in Calls |-> 0 - 1]
    /\ taskDuration = [s \in Calls |-> [p \in Pages |-> 0]]

\* ------------------------------------------------------------------- Init
Init ==
    /\ activeSession = NoSession
    /\ lastVideoPath = 0
    /\ issued = 0
    /\ kind = [c \in Calls |-> "none"]
    /\ pc = [c \in Calls |-> "idle"]
    /\ result = [c \in Calls |-> "none"]
    /\ argHttp = [c \in Calls |-> FALSE]
    /\ unlinkTarget = [c \in Calls |-> 0]
    /\ issuedWhileDraining = [c \in Calls |-> {}]
    /\ claimed = [c \in Calls |-> NoSession]
    /\ failure = [c \in Calls |-> "none"]
    /\ closeTried = [c \in Calls |-> {}]
    /\ chunksRead = [c \in Calls |-> 0]
    /\ reportKind = [c \in Calls |-> "none"]
    /\ browser = [s \in Calls |-> "none"]
    /\ context = [s \in Calls |-> "none"]
    /\ tabs = [s \in Calls |-> 0]
    /\ videoFile = [s \in Calls |-> "none"]
    /\ recordingStartSet = [s \in Calls |-> FALSE]
    /\ animHandler = [s \in Calls |-> FALSE]
    /\ ctxHandlers = [s \in Calls |-> FALSE]
    /\ intervals = [s \in Calls |-> FALSE]
    /\ samples = [s \in Calls |-> <<>>]
    /\ fpsSamples = [s \in Calls |-> <<>>]
    /\ screenshots = [s \in Calls |-> <<>>]
    /\ networkRequests = [s \in Calls |-> <<>>]
    /\ collectedAnimations = [s \in Calls |-> <<>>]
    /\ sampleTicks = [s \in Calls |-> <<>>]
    /\ shotTicks = [s \in Calls |-> <<>>]
    /\ tabInstalling = [s \in Calls |-> {}]
    /\ tabLinking = [s \in Calls |-> {}]
    /\ reqInFlight = [s \in Calls |-> 0]
    /\ events = 0
    /\ QueryIdle
    /\ ReportOff
    /\ PagesFresh
    /\ AnalysisOff

\* --------------------------------------------------------- startRecording
\* The call up to its first await: the guard, then ensureValidUrl.
StartCall(c, url) ==
    /\ c = issued + 1
    /\ issued' = c
    /\ kind' = [kind EXCEPT ![c] = "start"]
    /\ argHttp' = [argHttp EXCEPT ![c] = UrlProtocol(url) \in {"http:", "https:"}]
    /\ issuedWhileDraining' = [issuedWhileDraining EXCEPT ![c] = {s \in Calls : Draining(s)}]
    /\ \/ /\ StartGuard(activeSession)
          /\ Finish(c, "AlreadyRecording")
       \/ /\ ~StartGuard(activeSession)
          /\ ~ensureValidUrl(url)
          /\ Finish(c, "InvalidInput")
       \/ /\ ~StartGuard(activeSession)
          /\ ensureValidUrl(url)
          /\ CanSuspend
          /\ Goto(c, "prep")
    /\ UNCHANGED <<activeSession, lastVideoPath, unlinkTarget, claimed, failure, closeTried,
                   chunksRead, reportKind, browser, context, tabs, videoFile,
                   recordingStartSet, animHandler, ctxHandlers, intervals, samples, fpsSamples,
                   screenshots, networkRequests, collectedAnimations, sampleTicks, shotTicks,
                   tabInstalling, tabLinking, reqInFlight, events>>
    /\ UNCHANGED <<queryVars, reportVars, pageVars, analysisVars>>

\* getLaunchOptions and fs.mkdir resolve; lastVideoPath is tested.
StartPrep(c) ==
    /\ kind[c] = "start" /\ pc[c] = "prep"
    /\ \/ /\ Finish(c, "error")
          /\ UNCHANGED unlinkTarget
       \/ /\ lastVideoPath # 0
          /\ unlinkTarget' = [unlinkTarget EXCEPT ![c] = lastVideoPath]
          /\ Goto(c, "unlink")
       \/ /\ lastVideoPath = 0
          /\ Goto(c, "launch")
          /\ UNCHANGED unlinkTarget
    /\ UNCHANGED <<activeSession, lastVideoPath, issued, kind, argHttp, issuedWhileDraining,
                   claimed, failure, closeTried, chunksRead, reportKind, browser, context, tabs,
                   videoFile, recordingStartSet, animHandler, ctxHandlers, intervals, samples,
                   fpsSamples, screenshots, networkRequests, collectedAnimations, sampleTicks,
                   shotTicks, tabInstalling, tabLinking, reqInFlight, events>>
    /\ UNCHANGED <<queryVars, reportVars, pageVars, analysisVars>>

\* fs.unlink(lastVideoPath).catch(...) resolves; lastVideoPath = null.
StartUnlink(c) ==
    /\ kind[c] = "start" /\ pc[c] = "unlink"
    /\ \/ /\ videoFile[unlinkTarget[c]] = "exists"
          /\ videoFile' = [videoFile EXCEPT ![unlinkTarget[c]] = "deleted"]
       \/ UNCHANGED videoFile
    /\ lastVideoPath' = 0
    /\ Goto(c, "launch")
    /\ UNCHANGED <<activeSession, issued, kind, argHttp, unlinkTarget, issuedWhileDraining,
                   claimed, failure, closeTried, chunksRead, reportKind, browser, context, tabs,
                   recordingStartSet, animHandler, ctxHandlers, intervals, samples, fpsSamples,
                   screenshots, networkRequests, collectedAnimations, sampleTicks, shotTicks,
                   tabInstalling, tabLinking, reqInFlight, events>>
    /\ UNCHANGED <<queryVars, reportVars, pageVars, analysisVars>>

\* chromium.launch resolves or rejects.
StartLaunch(c) ==
    /\ kind[c] = "start" /\ pc[c] = "launch"
    /\ \/ /\ browser' = [browser EXCEPT ![c] = "open"]
          /\ Goto(c, "context")
       \/ /\ Finish(c, "error")
          /\ UNCHANGED browser
    /\ UNCHANGED <<activeSession, lastVideoPath, issued, kind, argHttp, unlinkTarget,
                   issuedWhileDraining, claimed, failure, closeTried, chunksRead, reportKind,
                   context, tabs, videoFile, recordingStartSet, animHandler, ctxHandlers,
                   intervals,
                   samples, fpsSamples, screenshots, networkRequests, collectedAnimations,
                   sampleTicks, shotTicks, tabInstalling, tabLinking, reqInFlight, events>>
    /\ UNCHANGED <<queryVars, reportVars, pageVars, analysisVars>>

\* newContext, newPage, the two CDP sessions, tracing.start and
\* Performance.enable; then Animation.enable and the subscription of the
\* animationStarted handler (when Animation.enable fails the failure is
\* swallowed and no notification is ever delivered: AnimationStarted then
\* simply does not occur).
StartContext(c) ==
    /\ kind[c] = "start" /\ pc[c] = "context"
    /\ \/ /\ context' = [context EXCEPT ![c] = "open"]
          /\ tabs' = [tabs EXCEPT ![c] = 1]
          /\ animHandler' = [animHandler EXCEPT ![c] = TRUE]
          /\ Goto(c, "instrument")
       \/ /\ Finish(c, "error")
          /\ UNCHANGED <<context, tabs, animHandler>>
    /\ UNCHANGED <<activeSession, lastVideoPath, issued, kind, argHttp, unlinkTarget,
                   issuedWhileDraining, claimed, failure, closeTried, chunksRead, reportKind,
                   browser, videoFile, recordingStartSet,
                   ctxHandlers, intervals, samples, fpsSamples, screenshots, networkRequests,
                   collectedAnimations, sampleTicks, shotTicks, tabInstalling, tabLinking,
                   reqInFlight, events>>
    /\ UNCHANGED <<queryVars, reportVars, pageVars, analysisVars>>

\* The throttle (swallowed), Tracing.start and the two init-script
\* collectors; then recordingStartMs = Date.now() and page.goto is issued.
StartInstrument(c) ==
    /\ kind[c] = "start" /\ pc[c] = "instrument"
    /\ \/ /\ recordingStartSet' = [recordingStartSet EXCEPT ![c] = TRUE]
          /\ Goto(c, "goto")
       \/ /\ Finish(c, "error")
          /\ UNCHANGED recordingStartSet
    /\ UNCHANGED <<activeSession, lastVideoPath, issued, kind, argHttp, unlinkTarget,
                   issuedWhileDraining, claimed, failure, closeTried, chunksRead, reportKind,
                   browser, context, tabs, videoFile, animHandler, ctxHandlers,
                   intervals, samples, fpsSamples, screenshots, networkRequests,
                   collectedAnimations, sampleTicks, shotTicks, tabInstalling, tabLinking,
                   reqInFlight, events>>
    /\ UNCHANGED <<queryVars, reportVars, pageVars, analysisVars>>

\* page.goto resolves or rejects.
StartGoto(c) ==
    /\ kind[c] = "start" /\ pc[c] = "goto"
    /\ \/ Goto(c, "fps")
       \/ Finish(c, "error")
    /\ UNCHANGED <<activeSession, lastVideoPath, issued, kind, argHttp, unlinkTarget,
                   issuedWhileDraining, claimed, failure, closeTried, chunksRead, reportKind,
                   browser, context, tabs, videoFile, recordingStartSet, animHandler,
                   ctxHandlers, intervals, samples, fpsSamples, screenshots, networkRequests,
                   collectedAnimations,
                   sampleTicks, shotTicks, tabInstalling, tabLinking, reqInFlight, events>>
    /\ UNCHANGED <<queryVars, reportVars, pageVars, analysisVars>>

\* ensureFpsCollector resolves; the context handlers are subscribed, the
\* intervals armed and the session published, all without a further await.
StartPublish(c) ==
    /\ kind[c] = "start" /\ pc[c] = "fps"
    /\ \/ /\ ctxHandlers' = [ctxHandlers EXCEPT ![c] = TRUE]
          /\ intervals' = [intervals EXCEPT ![c] = TRUE]
          /\ activeSession' = NewSession(c)
          /\ Finish(c, "recording")
       \/ /\ Finish(c, "error")
          /\ UNCHANGED <<ctxHandlers, intervals, activeSession>>
    /\ UNCHANGED <<lastVideoPath, issued, kind, argHttp, unlinkTarget, issuedWhileDraining,
                   claimed, failure, closeTried, chunksRead, reportKind, browser, context, tabs,
                   videoFile, recordingStartSet, animHandler, samples, fpsSamples, screenshots,
                   networkRequests, collectedAnimations,
                   sampleTicks, shotTicks, tabInstalling, tabLinking, reqInFlight, events>>
    /\ UNCHANGED <<queryVars, reportVars, pageVars, analysisVars>>

\* ---------------------------------------------------------- stopRecording
\* The call up to its first await: the guard, the destructuring of the
\* session, activeSession = null, the three clearInterval calls, and the
\* issue of the first page.evaluate.
StopCall(c) ==
    /\ c = issued + 1
    /\ issued' = c
    /\ kind' = [kind EXCEPT ![c] = "stop"]
    /\ \/ /\ StopGuard(activeSession)
          /\ Finish(c, "NoActiveSession")
          /\ UNCHANGED <<activeSession, claimed, intervals>>
       \/ /\ ~StopGuard(activeSession)
          /\ CanSuspend
          /\ claimed' = [claimed EXCEPT ![c] = activeSession]
          /\ activeSession' = SlotAfterClaim(activeSession)
          /\ intervals' = [s \in Calls |-> IF s = activeSession.sid THEN FALSE ELSE intervals[s]]
          /\ Goto(c, "drainFps")
    /\ UNCHANGED <<lastVideoPath, argHttp, unlinkTarget, issuedWhileDraining, failure,
                   closeTried, chunksRead, reportKind, browser, context, tabs, videoFile,
                   recordingStartSet, animHandler, ctxHandlers, samples, fpsSamples,
                   screenshots, networkRequests, collectedAnimations, sampleTicks, shotTicks,
                   tabInstalling, tabLinking, reqInFlight, events>>
    /\ UNCHANGED <<queryVars, reportVars, pageVars, analysisVars>>

\* page.evaluate of the in-page frame-rate samples: pushed onto fpsSamples,
\* or the failure is ignored.
StopDrainFps(c) ==
    /\ kind[c] = "stop" /\ pc[c] = "drainFps"
    /\ \/ /\ PageAlive(claimed[c].page)
          /\ fpsSamples' = [fpsSamples EXCEPT ![claimed[c].sid] = Append(@, claimed[c].page)]
       \/ UNCHANGED fpsSamples
    /\ Goto(c, "snapshot")
    /\ UNCHANGED <<activeSession, lastVideoPath, issued, kind, argHttp, unlinkTarget,
                   issuedWhileDraining, claimed, failure, closeTried, chunksRead, reportKind,
                   browser, context, tabs, videoFile, recordingStartSet, animHandler,
                   ctxHandlers, intervals, samples,
                   screenshots, networkRequests, collectedAnimations, sampleTicks, shotTicks,
                   tabInstalling, tabLinking, reqInFlight, events>>
    /\ UNCHANGED <<queryVars, reportVars, pageVars, analysisVars>>

\* readClientCollectorSnapshot: the snapshot, or null on any failure; then
\* context.tracing.stop is issued.
StopSnapshot(c) ==
    /\ kind[c] = "stop" /\ pc[c] = "snapshot"
    /\ Goto(c, "tracingStop")
    /\ UNCHANGED <<activeSession, lastVideoPath, issued, kind, argHttp, unlinkTarget,
                   issuedWhileDraining, claimed, failure, closeTried, chunksRead,
                   reportKind, browser, context, tabs, videoFile, recordingStartSet,
                   animHandler, ctxHandlers, intervals, samples, fpsSamples, screenshots,
                   networkRequests, collectedAnimations, sampleTicks, shotTicks, tabInstalling,
                   tabLinking, reqInFlight, events>>
    /\ UNCHANGED <<queryVars, reportVars, pageVars, analysisVars>>

\* A drain step inside the try block threw: control leaves the block.
DrainFails(c) ==
    /\ failure' = [failure EXCEPT ![c] = "drain"]
    /\ Goto(c, TeardownPc(TRUE))

\* context.tracing.stop({ path }).
StopTracingStop(c) ==
    /\ kind[c] = "stop" /\ pc[c] = "tracingStop"
    /\ \/ /\ Goto(c, "tracingEnd")
          /\ UNCHANGED failure
       \/ DrainFails(c)
    /\ UNCHANGED <<activeSession, lastVideoPath, issued, kind, argHttp, unlinkTarget,
                   issuedWhileDraining, claimed, closeTried, chunksRead,
                   reportKind, browser, context, tabs, videoFile, recordingStartSet,
                   animHandler, ctxHandlers, intervals, samples, fpsSamples, screenshots,
                   networkRequests, collectedAnimations, sampleTicks, shotTicks, tabInstalling,
                   tabLinking, reqInFlight, events>>
    /\ UNCHANGED <<queryVars, reportVars, pageVars, analysisVars>>

\* endCdpTrace: Tracing.end, resolved by Tracing.tracingComplete.
StopTracingEnd(c) ==
    /\ kind[c] = "stop" /\ pc[c] = "tracingEnd"
    /\ \/ /\ Goto(c, "ioRead")
          /\ UNCHANGED failure
       \/ DrainFails(c)
    /\ UNCHANGED <<activeSession, lastVideoPath, issued, kind, argHttp, unlinkTarget,
                   issuedWhileDraining, claimed, closeTried, chunksRead,
                   reportKind, browser, context, tabs, videoFile, recordingStartSet,
                   animHandler, ctxHandlers, intervals, samples, fpsSamples, screenshots,
                   networkRequests, collectedAnimations, sampleTicks, shotTicks, tabInstalling,
                   tabLinking, reqInFlight, events>>
    /\ UNCHANGED <<queryVars, reportVars, pageVars, analysisVars>>

\* readTraceStream: one IO.read; a chunk without eof loops, eof issues IO.close.
StopIoRead(c) ==
    /\ kind[c] = "stop" /\ pc[c] = "ioRead"
    /\ \/ /\ chunksRead[c] < MaxChunks
          /\ chunksRead' = [chunksRead EXCEPT ![c] = @ + 1]
          /\ UNCHANGED <<pc, result, failure>>
       \/ /\ Goto(c, "ioClose")
          /\ chunksRead' = [chunksRead EXCEPT ![c] = 0]
          /\ UNCHANGED failure
       \/ /\ DrainFails(c)
          /\ chunksRead' = [chunksRead EXCEPT ![c] = 0]
    /\ UNCHANGED <<activeSession, lastVideoPath, issued, kind, argHttp, unlinkTarget,
                   issuedWhileDraining, claimed, closeTried, reportKind,
                   browser, context, tabs, videoFile, recordingStartSet, animHandler,
                   ctxHandlers, intervals, samples, fpsSamples, screenshots, networkRequests,
                   collectedAnimations, sampleTicks, shotTicks, tabInstalling, tabLinking,
                   reqInFlight, events>>
    /\ UNCHANGED <<queryVars, reportVars, pageVars, analysisVars>>

\* readTraceStream: IO.close.
StopIoClose(c) ==
    /\ kind[c] = "stop" /\ pc[c] = "ioClose"
    /\ \/ /\ Goto(c, TeardownPc(FALSE))
          /\ UNCHANGED failure
       \/ DrainFails(c)
    /\ UNCHANGED <<activeSession, lastVideoPath, issued, kind, argHttp, unlinkTarget,
                   issuedWhileDraining, claimed, closeTried, chunksRead,
                   reportKind, browser, context, tabs, videoFile, recordingStartSet,
                   animHandler, ctxHandlers, intervals, samples, fpsSamples, screenshots,
                   networkRequests, collectedAnimations, sampleTicks, shotTicks, tabInstalling,
                   tabLinking, reqInFlight, events>>
    /\ UNCHANGED <<queryVars, reportVars, pageVars, analysisVars>>

\* finally: context.close().catch(...); closing the context finalises the
\* recorded video.
StopCloseContext(c) ==
    /\ kind[c] = "stop" /\ pc[c] = "closeContext"
    /\ closeTried' = [closeTried EXCEPT ![c] = @ \cup {"context"}]
    /\ \/ /\ context[claimed[c].sid] = "open"
          /\ context' = [context EXCEPT ![claimed[c].sid] = "closed"]
          /\ \E v \in {"none", "exists"} :
                videoFile' = [videoFile EXCEPT ![claimed[c].sid] = v]
       \/ UNCHANGED <<context, videoFile>>
    /\ Goto(c, "closeBrowser")
    /\ UNCHANGED <<activeSession, lastVideoPath, issued, kind, argHttp, unlinkTarget,
                   issuedWhileDraining, claimed, failure, chunksRead,
                   reportKind, browser, tabs, recordingStartSet, animHandler, ctxHandlers,
                   intervals, samples, fpsSamples, screenshots, networkRequests,
                   collectedAnimations, sampleTicks, shotTicks, tabInstalling, tabLinking,
                   reqInFlight, events>>
    /\ UNCHANGED <<queryVars, reportVars, pageVars, analysisVars>>

\* finally: browser.close().catch(...); then the pending exception of the
\* try block, if any, goes on to the caller.
StopCloseBrowser(c) ==
    /\ kind[c] = "stop" /\ pc[c] = "closeBrowser"
    /\ closeTried' = [closeTried EXCEPT ![c] = @ \cup {"browser"}]
    /\ \/ /\ browser[claimed[c].sid] = "open"
          /\ browser' = [browser EXCEPT ![claimed[c].sid] = "closed"]
       \/ UNCHANGED browser
    /\ Goto(c, IF failure[c] # "none" THEN "rethrow" ELSE "video")
    /\ UNCHANGED <<activeSession, lastVideoPath, issued, kind, argHttp, unlinkTarget,
                   issuedWhileDraining, claimed, failure, chunksRead,
                   reportKind, context, tabs, videoFile, recordingStartSet, animHandler,
                   ctxHandlers, intervals, samples, fpsSamples, screenshots, networkRequests,
                   collectedAnimations,
                   sampleTicks, shotTicks, tabInstalling, tabLinking, reqInFlight, events>>
    /\ UNCHANGED <<queryVars, reportVars, pageVars, analysisVars>>

\* The promise of stopRecording rejects with the exception of the try block.
StopRethrow(c) ==
    /\ kind[c] = "stop" /\ pc[c] = "rethrow"
    /\ Finish(c, "error")
    /\ UNCHANGED <<activeSession, lastVideoPath, issued, kind, argHttp, unlinkTarget,
                   issuedWhileDraining, claimed, failure, closeTried, chunksRead, reportKind,
                   browser, context, tabs, videoFile, recordingStartSet, animHandler,
                   ctxHandlers, intervals, samples, fpsSamples, screenshots, networkRequests,
                   collectedAnimations,
                   sampleTicks, shotTicks, tabInstalling, tabLinking, reqInFlight, events>>
    /\ UNCHANGED <<queryVars, reportVars, pageVars, analysisVars>>

\* selectBestVideoPath: the video of the session, or null when no file can
\* be stat'ed; assigned to lastVideoPath.
StopSelectVideo(c) ==
    /\ kind[c] = "stop" /\ pc[c] = "video"
    /\ \/ /\ videoFile[claimed[c].sid] = "exists"
          /\ lastVideoPath' = claimed[c].sid
          /\ videoFound' = [videoFound EXCEPT ![c] = TRUE]
       \/ /\ lastVideoPath' = 0
          /\ UNCHANGED videoFound
    /\ Goto(c, "report")
    /\ UNCHANGED <<activeSession, issued, kind, argHttp, unlinkTarget, issuedWhileDraining,
                   claimed, failure, closeTried, chunksRead, reportKind, browser, context, tabs,
                   videoFile, recordingStartSet, animHandler, ctxHandlers, intervals, samples,
                   fpsSamples, screenshots, networkRequests, collectedAnimations, sampleTicks,
                   shotTicks, tabInstalling, tabLinking, reqInFlight, events>>
    /\ UNCHANGED <<queries, liveReads, liveOut, videoReads, videoOut, reportVars, pageVars,
                   analysisVars>>

\* parseTrace, or buildFallbackReport when it throws; buildSpikeFrames,
\* deriveWebVitals, normalizeReportTimeRange and cleanupScreenshots, none of
\* which throws; then fs.unlink(tracePath) is issued.
StopReport(c) ==
    /\ kind[c] = "stop" /\ pc[c] = "report"
    /\ \E k \in {"trace", "fallback"} : reportKind' = [reportKind EXCEPT ![c] = k]
    /\ Goto(c, "unlinkTrace")
    /\ UNCHANGED <<activeSession, lastVideoPath, issued, kind, argHttp, unlinkTarget,
                   issuedWhileDraining, claimed, failure, closeTried, chunksRead, browser,
                   context, tabs, videoFile, recordingStartSet, animHandler, ctxHandlers,
                   intervals, samples, fpsSamples, screenshots, networkRequests,
                   collectedAnimations, sampleTicks, shotTicks, tabInstalling, tabLinking,
                   reqInFlight, events>>
    /\ UNCHANGED <<queryVars, reportVars, pageVars, analysisVars>>

\* await fs.unlink(tracePath): not guarded; then return report.
StopUnlinkTrace(c) ==
    /\ kind[c] = "stop" /\ pc[c] = "unlinkTrace"
    /\ \/ /\ Finish(c, "report")
          /\ UNCHANGED failure
       \/ /\ failure' = [failure EXCEPT ![c] = "unlink"]
          /\ Finish(c, "error")
    /\ UNCHANGED <<activeSession, lastVideoPath, issued, kind, argHttp, unlinkTarget,
                   issuedWhileDraining, claimed, closeTried, chunksRead,
                   reportKind, browser, context, tabs, videoFile, recordingStartSet,
                   animHandler, ctxHandlers, intervals, samples, fpsSamples, screenshots,
                   networkRequests, collectedAnimations, sampleTicks, shotTicks, tabInstalling,
                   tabLinking, reqInFlight, events>>
    /\ UNCHANGED <<queryVars, reportVars, pageVars, analysisVars>>

\* ------------------------------------------------- interval loops, handlers
\* The metrics link and the page an interval callback of closure s uses:
\* activeSession?.metricsCdp ?? metricsCdp and activeSession?.page ?? page.
TickCdp(s) == IF activeSession # NoSession THEN activeSession.metricsCdp ELSE <<s, 1>>

TickPage(s) == IF activeSession # NoSession THEN activeSession.page ELSE <<s, 1>>

\* sampleInterval fires: Performance.getMetrics is sent.
SampleFire(s) ==
    /\ intervals[s]
    /\ events < MaxEvents
    /\ Len(sampleTicks[s]) < MaxInFlight
    /\ events' = events + 1
    /\ sampleTicks' = [sampleTicks EXCEPT ![s] = Append(@, [stage |-> "metrics", target |-> TickCdp(s)])]
    /\ UNCHANGED <<activeSession, lastVideoPath, issued, kind, pc, result, argHttp,
                   unlinkTarget, issuedWhileDraining, claimed, failure, closeTried, chunksRead,
                   reportKind, browser, context, tabs, videoFile,
                   recordingStartSet, animHandler, ctxHandlers, intervals, samples, fpsSamples,
                   screenshots, networkRequests, collectedAnimations, shotTicks, tabInstalling,
                   tabLinking, reqInFlight>>
    /\ UNCHANGED <<queryVars, reportVars, pageVars, analysisVars>>

\* Performance.getMetrics resolves and the in-page evaluate is sent, or it
\* rejects and the callback ends in its catch.
SampleMetrics(s, i) ==
    /\ i \in 1..Len(sampleTicks[s])
    /\ sampleTicks[s][i].stage = "metrics"
    /\ \/ /\ PageAlive(sampleTicks[s][i].target)
          /\ sampleTicks' = [sampleTicks EXCEPT ![s][i] = [stage |-> "evaluate", target |-> TickPage(s)]]
       \/ sampleTicks' = [sampleTicks EXCEPT ![s] = RemoveAt(@, i)]
    /\ UNCHANGED <<activeSession, lastVideoPath, issued, kind, pc, result, argHttp,
                   unlinkTarget, issuedWhileDraining, claimed, failure, closeTried, chunksRead,
                   reportKind, browser, context, tabs, videoFile,
                   recordingStartSet, animHandler, ctxHandlers, intervals, samples, fpsSamples,
                   screenshots, networkRequests, collectedAnimations, shotTicks, tabInstalling,
                   tabLinking, reqInFlight,
                   events>>
    /\ UNCHANGED <<queryVars, reportVars, pageVars, analysisVars>>

\* The in-page evaluate resolves or rejects (a rejection is swallowed: the
\* channel's values are used); the sample is pushed.
SampleEvaluate(s, i) ==
    /\ i \in 1..Len(sampleTicks[s])
    /\ sampleTicks[s][i].stage = "evaluate"
    /\ samples' = [samples EXCEPT ![s] = Append(@, sampleTicks[s][i].target)]
    /\ sampleTicks' = [sampleTicks EXCEPT ![s] = RemoveAt(@, i)]
    /\ UNCHANGED <<activeSession, lastVideoPath, issued, kind, pc, result, argHttp,
                   unlinkTarget, issuedWhileDraining, claimed, failure, closeTried, chunksRead,
                   reportKind, browser, context, tabs, videoFile,
                   recordingStartSet, animHandler, ctxHandlers, intervals, fpsSamples,
                   screenshots, networkRequests,
                   collectedAnimations, shotTicks, tabInstalling, tabLinking, reqInFlight,
                   events>>
    /\ UNCHANGED <<queryVars, reportVars, pageVars, analysisVars>>

\* screenshotInterval fires: at the cap it returns, otherwise
\* page.screenshot is sent.
ShotFire(s) ==
    /\ intervals[s]
    /\ events < MaxEvents
    /\ Len(shotTicks[s]) < MaxInFlight
    /\ events' = events + 1
    /\ shotTicks' = IF Len(screenshots[s]) >= MaxScreenshots
                      THEN shotTicks
                      ELSE [shotTicks EXCEPT ![s] = Append(@, TickPage(s))]
    /\ UNCHANGED <<activeSession, lastVideoPath, issued, kind, pc, result, argHttp,
                   unlinkTarget, issuedWhileDraining, claimed, failure, closeTried, chunksRead,
                   reportKind, browser, context, tabs, videoFile,
                   recordingStartSet, animHandler, ctxHandlers, intervals, samples, fpsSamples,
                   screenshots, networkRequests, collectedAnimations, sampleTicks,
                   tabInstalling, tabLinking,
                   reqInFlight>>
    /\ UNCHANGED <<queryVars, reportVars, pageVars, analysisVars>>

\* page.screenshot resolves and the screenshot is pushed, or it rejects and
\* the failure is ignored.
ShotDone(s, i) ==
    /\ i \in 1..Len(shotTicks[s])
    /\ \/ /\ PageAlive(shotTicks[s][i])
          /\ screenshots' = [screenshots EXCEPT ![s] = Append(@, shotTicks[s][i])]
       \/ UNCHANGED screenshots
    /\ shotTicks' = [shotTicks EXCEPT ![s] = RemoveAt(@, i)]
    /\ UNCHANGED <<activeSession, lastVideoPath, issued, kind, pc, result, argHttp,
                   unlinkTarget, issuedWhileDraining, claimed, failure, closeTried, chunksRead,
                   reportKind, browser, context, tabs, videoFile,
                   recordingStartSet, animHandler, ctxHandlers, intervals, samples, fpsSamples,
                   networkRequests, collectedAnimations,
                   sampleTicks, tabInstalling, tabLinking, reqInFlight, events>>
    /\ UNCHANGED <<queryVars, reportVars, pageVars, analysisVars>>

\* Animation.animationStarted is delivered to the subscribed handler, which
\* reads recordingStartMs: before its initialisation the read throws and
\* nothing is pushed.
AnimationStarted(s) ==
    /\ animHandler[s]
    /\ PageAlive(<<s, 1>>)
    /\ events < MaxEvents
    /\ events' = events + 1
    /\ \/ /\ recordingStartSet[s]
          /\ collectedAnimations' = [collectedAnimations EXCEPT ![s] = Append(@, "animation")]
       \/ /\ ~recordingStartSet[s]
          /\ UNCHANGED collectedAnimations
    /\ UNCHANGED <<activeSession, lastVideoPath, issued, kind, pc, result, argHttp,
                   unlinkTarget, issuedWhileDraining, claimed, failure, closeTried, chunksRead,
                   reportKind, browser, context, tabs, videoFile,
                   recordingStartSet, animHandler, ctxHandlers, intervals, samples, fpsSamples,
                   screenshots, networkRequests,
                   sampleTicks, shotTicks, tabInstalling, tabLinking, reqInFlight>>
    /\ UNCHANGED <<queryVars, reportVars, pageVars, analysisVars>>

\* requestfinished or requestfailed is delivered to onRequestEnd, which
\* awaits request.response().
RequestEnd(s) ==
    /\ ctxHandlers[s]
    /\ context[s] = "open"
    /\ events < MaxEvents
    /\ events' = events + 1
    /\ reqInFlight' = [reqInFlight EXCEPT ![s] = @ + 1]
    /\ UNCHANGED <<activeSession, lastVideoPath, issued, kind, pc, result, argHttp,
                   unlinkTarget, issuedWhileDraining, claimed, failure, closeTried, chunksRead,
                   reportKind, browser, context, tabs, videoFile,
                   recordingStartSet, animHandler, ctxHandlers, intervals, samples, fpsSamples,
                   screenshots, networkRequests, collectedAnimations, sampleTicks, shotTicks,
                   tabInstalling, tabLinking>>
    /\ UNCHANGED <<queryVars, reportVars, pageVars, analysisVars>>

\* request.response() resolves and the record is pushed, or it rejects.
RequestRecorded(s) ==
    /\ reqInFlight[s] > 0
    /\ reqInFlight' = [reqInFlight EXCEPT ![s] = @ - 1]
    /\ \/ networkRequests' = [networkRequests EXCEPT ![s] = Append(@, "request")]
       \/ UNCHANGED networkRequests
    /\ UNCHANGED <<activeSession, lastVideoPath, issued, kind, pc, result, argHttp,
                   unlinkTarget, issuedWhileDraining, claimed, failure, closeTried, chunksRead,
                   reportKind, browser, context, tabs, videoFile,
                   recordingStartSet, animHandler, ctxHandlers, intervals, samples, fpsSamples,
                   screenshots, collectedAnimations,
                   sampleTicks, shotTicks, tabInstalling, tabLinking, events>>
    /\ UNCHANGED <<queryVars, reportVars, pageVars, analysisVars>>

\* The context opens a new page: the "page" handler starts updateActivePage.
NewTab(s) ==
    /\ ctxHandlers[s]
    /\ context[s] = "open"
    /\ events < MaxEvents
    /\ tabs[s] < MaxTabs
    /\ events' = events + 1
    /\ tabs' = [tabs EXCEPT ![s] = @ + 1]
    /\ tabInstalling' = [tabInstalling EXCEPT ![s] = @ \cup {tabs[s] + 1}]
    /\ UNCHANGED <<activeSession, lastVideoPath, issued, kind, pc, result, argHttp,
                   unlinkTarget, issuedWhileDraining, claimed, failure, closeTried, chunksRead,
                   reportKind, browser, context,
                   videoFile, recordingStartSet, animHandler, ctxHandlers, intervals, samples,
                   fpsSamples, screenshots, networkRequests, collectedAnimations, sampleTicks,
                   shotTicks, tabLinking,
                   reqInFlight>>
    /\ UNCHANGED <<queryVars, reportVars, pageVars, analysisVars>>

\* updateActivePage: the three collectors, newCDPSession and
\* Performance.enable resolve, or one of them rejects and the call ends.
TabInstalled(s, p) ==
    /\ p \in tabInstalling[s]
    /\ tabInstalling' = [tabInstalling EXCEPT ![s] = @ \ {p}]
    /\ \/ /\ PageAlive(<<s, p>>)
          /\ tabLinking' = [tabLinking EXCEPT ![s] = @ \cup {p}]
       \/ UNCHANGED tabLinking
    /\ UNCHANGED <<activeSession, lastVideoPath, issued, kind, pc, result, argHttp,
                   unlinkTarget, issuedWhileDraining, claimed, failure, closeTried, chunksRead,
                   reportKind, browser, context, tabs, videoFile,
                   recordingStartSet, animHandler, ctxHandlers, intervals, samples, fpsSamples,
                   screenshots, networkRequests, collectedAnimations, sampleTicks, shotTicks,
                   reqInFlight, events>>
    /\ UNCHANGED <<queryVars, reportVars, pageVars, analysisVars>>

\* updateActivePage: Animation.enable and the throttle, both swallowed on
\* failure; then the session slot, if not null, gets the new page and link.
TabLinked(s, p) ==
    /\ p \in tabLinking[s]
    /\ tabLinking' = [tabLinking EXCEPT ![s] = @ \ {p}]
    /\ activeSession' = IF activeSession # NoSession
                          THEN [activeSession EXCEPT !.page = <<s, p>>, !.metricsCdp = <<s, p>>]
                          ELSE activeSession
    /\ UNCHANGED <<lastVideoPath, issued, kind, pc, result, argHttp, unlinkTarget,
                   issuedWhileDraining, claimed, failure, closeTried, chunksRead, reportKind,
                   browser, context, tabs, videoFile, recordingStartSet, animHandler,
                   ctxHandlers, intervals, samples, fpsSamples, screenshots, networkRequests,
                   collectedAnimations,
                   sampleTicks, shotTicks, tabInstalling, reqInFlight, events>>
    /\ UNCHANGED <<queryVars, reportVars, pageVars, analysisVars>>

\* ------------------------------------------------------------------- Next
Next ==
    \/ \E c \in Calls, url \in Urls : StartCall(c, url)
    \/ \E c \in Calls : StartPrep(c)
    \/ \E c \in Calls : StartUnlink(c)
    \/ \E c \in Calls : StartLaunch(c)
    \/ \E c \in Calls : StartContext(c)
    \/ \E c \in Calls : StartInstrument(c)
    \/ \E c \in Calls : StartGoto(c)
    \/ \E c \in Calls : StartPublish(c)
    \/ \E c \in Calls : StopCall(c)
    \/ \E c \in Calls : StopDrainFps(c)
    \/ \E c \in Calls : StopSnapshot(c)
    \/ \E c \in Calls : StopTracingStop(c)
    \/ \E c \in Calls : StopTracingEnd(c)
    \/ \E c \in Calls : StopIoRead(c)
    \/ \E c \in Calls : StopIoClose(c)
    \/ \E c \in Calls : StopCloseContext(c)
    \/ \E c \in Calls : StopCloseBrowser(c)
    \/ \E c \in Calls : StopRethrow(c)
    \/ \E c \in Calls : StopSelectVideo(c)
    \/ \E c \in Calls : StopReport(c)
    \/ \E c \in Calls : StopUnlinkTrace(c)
    \/ \E s \in Calls : SampleFire(s)
    \/ \E s \in Calls, i \in 1..MaxInFlight : SampleMetrics(s, i)
    \/ \E s \in Calls, i \in 1..MaxInFlight : SampleEvaluate(s, i)
    \/ \E s \in Calls : ShotFire(s)
    \/ \E s \in Calls, i \in 1..MaxInFlight : ShotDone(s, i)
    \/ \E s \in Calls : AnimationStarted(s)
    \/ \E s \in Calls : RequestEnd(s)
    \/ \E s \in Calls : RequestRecorded(s)
    \/ \E s \in Calls : NewTab(s)
    \/ \E s \in Calls, p \in 1..MaxTabs : TabInstalled(s, p)
    \/ \E s \in Calls, p \in 1..MaxTabs : TabLinked(s, p)

Spec == Init /\ [][Next]_vars

\* ----------------------------------------------- the screenshot loop alone
\* The state startRecording(1) leaves when every step of it succeeds: the
\* session is published, its handlers are subscribed and its timers armed.
InitRecording ==
    /\ activeSession = NewSession(1)
    /\ lastVideoPath = 0
    /\ issued = 1
    /\ kind = [c \in Calls |-> IF c = 1 THEN "start" ELSE "none"]
    /\ pc = [c \in Calls |-> IF c = 1 THEN "done" ELSE "idle"]
    /\ result = [c \in Calls |-> IF c = 1 THEN "recording" ELSE "none"]
    /\ argHttp = [c \in Calls |-> c = 1]
    /\ unlinkTarget = [c \in Calls |-> 0]
    /\ issuedWhileDraining = [c \in Calls |-> {}]
    /\ claimed = [c \in Calls |-> NoSession]
    /\ failure = [c \in Calls |-> "none"]
    /\ closeTried = [c \in Calls |-> {}]
    /\ chunksRead = [c \in Calls |-> 0]
    /\ reportKind = [c \in Calls |-> "none"]
    /\ browser = [s \in Calls |-> IF s = 1 THEN "open" ELSE "none"]
    /\ context = [s \in Calls |-> IF s = 1 THEN "open" ELSE "none"]
    /\ tabs = [s \in Calls |-> IF s = 1 THEN 1 ELSE 0]
    /\ videoFile = [s \in Calls |-> "none"]
    /\ recordingStartSet = [s \in Calls |-> s = 1]
    /\ animHandler = [s \in Calls |-> s = 1]
    /\ ctxHandlers = [s \in Calls |-> s = 1]
    /\ intervals = [s \in Calls |-> s = 1]
    /\ samples = [s \in Calls |-> <<>>]
    /\ fpsSamples = [s \in Calls |-> <<>>]
    /\ screenshots = [s \in Calls |-> <<>>]
    /\ networkRequests = [s \in Calls |-> <<>>]
    /\ collectedAnimations = [s \in Calls |-> <<>>]
    /\ sampleTicks = [s \in Calls |-> <<>>]
    /\ shotTicks = [s \in Calls |-> <<>>]
    /\ tabInstalling = [s \in Calls |-> {}]
    /\ tabLinking = [s \in Calls |-> {}]
    /\ reqInFlight = [s \in Calls |-> 0]
    /\ events = 0
    /\ QueryIdle
    /\ ReportOff
    /\ PagesRecording
    /\ AnalysisOff

\* screenshotInterval fires while earlier callbacks may still be awaiting
\* page.screenshot: the cap is tested on entry, before the await; at the cap
\* the callback returns, otherwise page.screenshot is sent.
ShotFireOverlapping(s) ==
    /\ intervals[s]
    /\ Len(shotTicks[s]) < MaxOverlap
    /\ shotTicks' = IF Len(screenshots[s]) >= MaxScreenshots
                      THEN shotTicks
                      ELSE [shotTicks EXCEPT ![s] = Append(@, TickPage(s))]
    /\ UNCHANGED <<activeSession, lastVideoPath, issued, kind, pc, result, argHttp,
                   unlinkTarget, issuedWhileDraining, claimed, failure, closeTried, chunksRead,
                   reportKind, browser, context, tabs, videoFile,
                   recordingStartSet, animHandler, ctxHandlers, intervals, samples, fpsSamples,
                   screenshots, networkRequests, collectedAnimations, sampleTicks,
                   tabInstalling, tabLinking,
                   reqInFlight, events>>
    /\ UNCHANGED <<queryVars, reportVars, pageVars, analysisVars>>

NextShot ==
    \/ \E s \in Calls : ShotFireOverlapping(s)
    \/ \E s \in Calls, i \in 1..MaxOverlap : ShotDone(s, i)
    \/ \E s \in Calls : NewTab(s)
    \/ \E s \in Calls, p \in 1..MaxTabs : TabInstalled(s, p)
    \/ \E s \in Calls, p \in 1..MaxTabs : TabLinked(s, p)

\* One recording session and its screenshot loop, from publication on.
ShotSpec == InitRecording /\ [][NextShot]_vars

\* ------------------------------------------------- pages and their documents
\* The context opens a further page mid-session: the "page" handler starts
\* updateActivePage on it.  The page shows a document that was created
\* before any init script could be registered on it.
TabOpened(s) ==
    /\ ctxHandlers[s]
    /\ context[s] = "open"
    /\ tabs[s] < MaxOpened
    /\ tabs' = [tabs EXCEPT ![s] = @ + 1]
    /\ tabInstalling' = [tabInstalling EXCEPT ![s] = @ \cup {tabs[s] + 1}]
    /\ UNCHANGED <<activeSession, lastVideoPath, issued, kind, pc, result, argHttp,
                   unlinkTarget, issuedWhileDraining, claimed, failure, closeTried, chunksRead,
                   reportKind, browser, context,
                   videoFile, recordingStartSet, animHandler, ctxHandlers, intervals, samples,
                   fpsSamples, screenshots, networkRequests, collectedAnimations, sampleTicks,
                   shotTicks, tabLinking,
                   reqInFlight, events>>
    /\ UNCHANGED <<queryVars, reportVars, pageVars, analysisVars>>

\* updateActivePage up to Performance.enable: ensureClientCollectors and
\* ensureMemoryAndDomCollector register their init scripts on the page
\* (addInitScript: run in every document the page creates from now on),
\* ensureFpsCollector installs the frame counter in the document the page
\* shows now (page.evaluate), newCDPSession and Performance.enable resolve;
\* or one of them rejects and the call ends.
TabInstrumented(s, p) ==
    /\ p \in tabInstalling[s]
    /\ tabInstalling' = [tabInstalling EXCEPT ![s] = @ \ {p}]
    /\ \/ /\ PageAlive(<<s, p>>)
          /\ initScripts' = [initScripts EXCEPT ![s][p] = TRUE]
          /\ doc' = [doc EXCEPT ![s][p].fps = TRUE]
          /\ tabLinking' = [tabLinking EXCEPT ![s] = @ \cup {p}]
       \/ UNCHANGED <<tabLinking, initScripts, doc>>
    /\ UNCHANGED <<activeSession, lastVideoPath, issued, kind, pc, result, argHttp,
                   unlinkTarget, issuedWhileDraining, claimed, failure, closeTried, chunksRead,
                   reportKind, browser, context, tabs, videoFile,
                   recordingStartSet, animHandler, ctxHandlers, intervals, samples, fpsSamples,
                   screenshots, networkRequests, collectedAnimations, sampleTicks, shotTicks,
                   reqInFlight, events>>
    /\ UNCHANGED <<queryVars, reportVars, captured, linkOrder, lastPerfTotals, taskDuration,
                   analysisVars>>

\* updateActivePage from Animation.enable to its end: the session slot, if
\* not null, gets the new page and link.
TabActivated(s, p) ==
    /\ p \in tabLinking[s]
    /\ tabLinking' = [tabLinking EXCEPT ![s] = @ \ {p}]
    /\ activeSession' = IF activeSession # NoSession
                          THEN [activeSession EXCEPT !.page = <<s, p>>, !.metricsCdp = <<s, p>>]
                          ELSE activeSession
    /\ linkOrder' = [linkOrder EXCEPT ![s] = Append(@, p)]
    /\ UNCHANGED <<lastVideoPath, issued, kind, pc, result, argHttp, unlinkTarget,
                   issuedWhileDraining, claimed, failure, closeTried, chunksRead, reportKind,
                   browser, context, tabs, videoFile, recordingStartSet, animHandler,
                   ctxHandlers, intervals, samples, fpsSamples, screenshots, networkRequests,
                   collectedAnimations,
                   sampleTicks, shotTicks, tabInstalling, reqInFlight, events>>
    /\ UNCHANGED <<queryVars, reportVars, initScripts, doc, captured, lastPerfTotals,
                   taskDuration, analysisVars>>

\* A page navigates (a link, a redirect, a reload): the browser creates a
\* new document and runs the init scripts registered on the page in it;
\* what page.evaluate had put into the old document is gone with it.
Navigate(s, p) ==
    /\ p \in 1..tabs[s]
    /\ PageAlive(<<s, p>>)
    /\ events < MaxEvents
    /\ events' = events + 1
    /\ doc' = [doc EXCEPT ![s][p] =
                 [collector |-> initScripts[s][p], fps |-> FALSE, samples |-> <<>>]]
    /\ UNCHANGED <<activeSession, lastVideoPath, issued, kind, pc, result, argHttp,
                   unlinkTarget, issuedWhileDraining, claimed, failure, closeTried, chunksRead,
                   reportKind, browser, context, tabs, videoFile,
                   recordingStartSet, animHandler, ctxHandlers, intervals, samples, fpsSamples,
                   screenshots, networkRequests, collectedAnimations, sampleTicks, shotTicks,
                   tabInstalling,
                   tabLinking, reqInFlight>>
    /\ UNCHANGED <<queryVars, reportVars, initScripts, captured, linkOrder, lastPerfTotals,
                   taskDuration, analysisVars>>

\* The frame counter of a document completes a second: tick pushes a sample
\* onto window.__perftrace.samples.  active records whether the page was
\* the session's active page then.
FrameSecond(s, p) ==
    /\ p \in 1..tabs[s]
    /\ PageAlive(<<s, p>>)
    /\ doc[s][p].fps
    /\ Cardinality(captured[s]) < MaxFrames
    /\ LET sample == [page |-> p, n |-> Cardinality(captured[s]) + 1,
                      active |-> activeSession # NoSession
                                   /\ activeSession.page = <<s, p>>]
       IN  /\ doc' = [doc EXCEPT ![s][p].samples = Append(@, sample)]
           /\ captured' = [captured EXCEPT ![s] = @ \cup {sample}]
    /\ UNCHANGED <<sessionVars, queryVars, reportVars, initScripts, linkOrder, lastPerfTotals,
                   taskDuration, analysisVars>>

\* stopRecording: page.evaluate returns window.__perftrace?.samples ?? [] of
\* the document the destructured page shows and the samples are pushed onto
\* fpsSamples, or the evaluate rejects and the failure is ignored.
StopPullFps(c) ==
    /\ kind[c] = "stop" /\ pc[c] = "drainFps"
    /\ \/ /\ PageAlive(claimed[c].page)
          /\ fpsSamples' = [fpsSamples EXCEPT ![claimed[c].sid] =
                              @ \o doc[claimed[c].sid][claimed[c].page[2]].samples]
       \/ UNCHANGED fpsSamples
    /\ Goto(c, "snapshot")
    /\ UNCHANGED <<activeSession, lastVideoPath, issued, kind, argHttp, unlinkTarget,
                   issuedWhileDraining, claimed, failure, closeTried, chunksRead, reportKind,
                   browser, context, tabs, videoFile, recordingStartSet, animHandler,
                   ctxHandlers, intervals, samples,
                   screenshots, networkRequests, collectedAnimations, sampleTicks, shotTicks,
                   tabInstalling, tabLinking, reqInFlight, events>>
    /\ UNCHANGED <<queryVars, reportVars, pageVars, analysisVars>>

\* One recording session from publication on: tabs opening, pages
\* navigating, the frame counters, the interval loops and the event
\* handlers, and stopRecording up to the drain of the frame-rate samples.
NextPage ==
    \/ \E s \in Calls : TabOpened(s)
    \/ \E s \in Calls, p \in Pages : TabInstrumented(s, p)
    \/ \E s \in Calls, p \in Pages : TabActivated(s, p)
    \/ \E s \in Calls, p \in Pages : Navigate(s, p)
    \/ \E s \in Calls, p \in Pages : FrameSecond(s, p)
    \/ \E s \in Calls : SampleFire(s)
    \/ \E s \in Calls, i \in 1..MaxInFlight : SampleMetrics(s, i)
    \/ \E s \in Calls, i \in 1..MaxInFlight : SampleEvaluate(s, i)
    \/ \E s \in Calls : ShotFire(s)
    \/ \E s \in Calls, i \in 1..MaxInFlight : ShotDone(s, i)
    \/ \E s \in Calls : AnimationStarted(s)
    \/ \E s \in Calls : RequestEnd(s)
    \/ \E s \in Calls : RequestRecorded(s)
    \/ \E c \in Calls : StopCall(c)
    \/ \E c \in Calls : StopPullFps(c)

PageSpec == InitRecording /\ [][NextPage]_vars

\* ---------------------------------------------------- metrics-loop deltas
\* A page's main thread works for a second: its TaskDuration counter grows.
Work(s, p) ==
    /\ p \in 1..tabs[s]
    /\ PageAlive(<<s, p>>)
    /\ taskDuration[s][p] < MaxWork
    /\ taskDuration' = [taskDuration EXCEPT ![s][p] = @ + 1]
    /\ UNCHANGED <<sessionVars, queryVars, reportVars, initScripts, doc, captured, linkOrder,
                   lastPerfTotals, analysisVars>>

\* Math.max(0, (totals.taskDuration - lastTotals.taskDuration) * 1000), or 0
\* when lastPerfTotals is undefined.
DeltaMs(current, last) ==
    IF last = 0 - 1 THEN 0
    ELSE IF (current - last) * 1000 > 0 THEN (current - last) * 1000 ELSE 0

\* sampleInterval fires while earlier callbacks may still be awaiting their
\* remote calls: Performance.getMetrics is sent on the session's link.
TickSend(s) ==
    /\ intervals[s]
    /\ Len(sampleTicks[s]) < MaxOverlap
    /\ Len(samples[s]) + Len(sampleTicks[s]) < MaxSamples
    /\ sampleTicks' = [sampleTicks EXCEPT ![s] =
          Append(@, [stage |-> "metrics", link |-> TickCdp(s), target |-> NoPage,
                     totals |-> 0 - 1])]
    /\ UNCHANGED <<activeSession, lastVideoPath, issued, kind, pc, result, argHttp,
                   unlinkTarget, issuedWhileDraining, claimed, failure, closeTried, chunksRead,
                   reportKind, browser, context, tabs, videoFile,
                   recordingStartSet, animHandler, ctxHandlers, intervals, samples, fpsSamples,
                   screenshots, networkRequests, collectedAnimations, shotTicks, tabInstalling,
                   tabLinking,
                   reqInFlight, events>>
    /\ UNCHANGED <<queryVars, reportVars, pageVars, analysisVars>>

\* Performance.getMetrics resolves with the counters of the link's page and
\* the in-page evaluate is sent to the active page, or it rejects and the
\* callback ends in its catch.
TickMetrics(s, i) ==
    /\ i \in 1..Len(sampleTicks[s])
    /\ sampleTicks[s][i].stage = "metrics"
    /\ \/ /\ PageAlive(sampleTicks[s][i].link)
          /\ sampleTicks' = [sampleTicks EXCEPT ![s][i] =
                [stage |-> "evaluate", link |-> @.link, target |-> TickPage(s),
                 totals |-> taskDuration[s][@.link[2]]]]
       \/ sampleTicks' = [sampleTicks EXCEPT ![s] = RemoveAt(@, i)]
    /\ UNCHANGED <<activeSession, lastVideoPath, issued, kind, pc, result, argHttp,
                   unlinkTarget, issuedWhileDraining, claimed, failure, closeTried, chunksRead,
                   reportKind, browser, context, tabs, videoFile,
                   recordingStartSet, animHandler, ctxHandlers, intervals, samples, fpsSamples,
                   screenshots, networkRequests, collectedAnimations, shotTicks, tabInstalling,
                   tabLinking,
                   reqInFlight, events>>
    /\ UNCHANGED <<queryVars, reportVars, pageVars, analysisVars>>

\* The in-page evaluate resolves or rejects (swallowed); lastPerfTotals is
\* read, the deltas are computed, the sample is pushed and lastPerfTotals
\* becomes this tick's totals.
TickPush(s, i) ==
    /\ i \in 1..Len(sampleTicks[s])
    /\ sampleTicks[s][i].stage = "evaluate"
    /\ samples' = [samples EXCEPT ![s] =
          Append(@, [cpuBusyMs |-> DeltaMs(sampleTicks[s][i].totals, lastPerfTotals[s]),
                     totals |-> sampleTicks[s][i].totals,
                     link |-> sampleTicks[s][i].link])]
    /\ lastPerfTotals' = [lastPerfTotals EXCEPT ![s] = sampleTicks[s][i].totals]
    /\ sampleTicks' = [sampleTicks EXCEPT ![s] = RemoveAt(@, i)]
    /\ UNCHANGED <<activeSession, lastVideoPath, issued, kind, pc, result, argHttp,
                   unlinkTarget, issuedWhileDraining, claimed, failure, closeTried, chunksRead,
                   reportKind, browser, context, tabs, videoFile,
                   recordingStartSet, animHandler, ctxHandlers, intervals, fpsSamples,
                   screenshots, networkRequests,
                   collectedAnimations, shotTicks, tabInstalling, tabLinking, reqInFlight,
                   events>>
    /\ UNCHANGED <<queryVars, reportVars, initScripts, doc, captured, linkOrder, taskDuration,
                   analysisVars>>

\* One recording session from publication on: the metrics loop, the pages'
\* counters, and tabs opening.
NextMetrics ==
    \/ \E s \in Calls, p \in Pages : Work(s, p)
    \/ \E s \in Calls : TickSend(s)
    \/ \E s \in Calls, i \in 1..MaxOverlap : TickMetrics(s, i)
    \/ \E s \in Calls, i \in 1..MaxOverlap : TickPush(s, i)
    \/ \E s \in Calls : TabOpened(s)
    \/ \E s \in Calls, p \in Pages : TabInstrumented(s, p)
    \/ \E s \in Calls, p \in Pages : TabActivated(s, p)

MetricsSpec == InitRecording /\ [][NextMetrics]_vars

\* ------------------------------------------------------ the report pipeline
\* parseTrace / buildFallbackReport and normalizeReportTimeRange are pure
\* functions of the timestamps, the trace and the fallback samples.  The
\* five series of a report are built and normalised independently by the
\* same code; a run of the pipeline follows one of them (metric).
\*
\* timeSec is a fraction of a second: it is held as a whole number of
\* 1/TimeUnit seconds.  Input times are multiples of a tenth of a second, so
\* that the division by 1000 of the unit rescaling is exact.
TimeUnit == 10000

Tenths(n) == n * (TimeUnit \div 10)

\* buildSpikeFrames: .slice(0, 5) of the points sorted by value.
SpikeLimit == 5

Metrics == {"fps", "cpu", "gpu", "memory", "domNodes"}

\* A sample without jsHeapMb or nodes (the field is undefined).
Undefined == 0 - 1

\* timeSec of PerfSamples and in-page samples, in tenths of a second: inside
\* the first half second, mid-session, near the end of a 10 s session, and
\* stamped after the stop timestamp.
SampleTimes == {Tenths(3), Tenths(40), Tenths(97), Tenths(120)}

\* Frame counts per second; cpuBusyMs, jsHeapMb and nodes values.
SampleValues == {60, 144}

Point(t, v) == [timeSec |-> t, value |-> v]

Min2(a, b) == IF a < b THEN a ELSE b

Max2(a, b) == IF a > b THEN a ELSE b

Times(points) == {points[i].timeSec : i \in DOMAIN points}

\* Math.min(...points.map(p => p.timeSec)) of a non-empty array.
MinTime(points) == CHOOSE t \in Times(points) : \A u \in Times(points) : t <= u

\* Math.max(...points.map(p => p.timeSec)) of a non-empty array.
MaxTime(points) == CHOOSE t \in Times(points) : \A u \in Times(points) : t >= u

RECURSIVE InsertByTime(_, _)
InsertByTime(sorted, p) ==
    IF sorted = <<>> THEN <<p>>
    ELSE IF sorted[Len(sorted)].timeSec <= p.timeSec THEN Append(sorted, p)
    ELSE Append(InsertByTime(SubSeq(sorted, 1, Len(sorted) - 1), p), sorted[Len(sorted)])

RECURSIVE SortedPrefix(_, _)
SortedPrefix(points, n) ==
    IF n = 0 THEN <<>> ELSE InsertByTime(SortedPrefix(points, n - 1), points[n])

NotSorted(points) == points

\* points.sort((a, b) => a.timeSec - b.timeSec): a stable sort.
SortByTime(points) == SortedPrefix(points, Len(points))

\* Seq(S) up to a length.
SeqsUpTo(S, n) == UNION {[1..k -> S] : k \in 0..n}

\* ---- parseTrace: which source each series is taken from
TsAlwaysMicroseconds(raw) == TRUE

\* const traceTsIsMicroseconds = rawTraceSpan > 1e6.
traceTsIsMicroseconds(raw) == raw > 1000000

\* startTs < endTs ? (traceTsIsMicroseconds ? rawTraceSpan / 1000 : rawTraceSpan) : 0
traceDurationMs(raw) ==
    IF raw > 0 THEN (IF traceTsIsMicroseconds(raw) THEN raw \div 1000 ELSE raw) ELSE 0

wallClockDurationMs(started, stopped) == Max2(0, stopped - started)

wallClockDurationSec(wallMs) == wallMs * (TimeUnit \div 1000)

DurationIsTraceSpan(wallMs, raw) == traceDurationMs(raw)

\* parseTrace: const durationMs = wallClockDurationMs.
parseTraceDurationMs(wallMs, raw) == wallMs

traceSpanTooLarge(wallMs, raw) ==
    traceDurationMs(raw) > wallMs * 10 /\ traceDurationMs(raw) > 60000

\* traceDurationMs >= wallClockDurationMs * 0.8, in tenths.
useTraceForSeries(wallMs, raw) ==
    /\ ~traceSpanTooLarge(wallMs, raw)
    /\ traceDurationMs(raw) * 10 >= wallMs * 8
    /\ traceDurationMs(raw) > 0

\* reduce((sum, x) => sum + x, 0).
RECURSIVE SumValues(_)
SumValues(values) ==
    IF values = <<>> THEN 0 ELSE values[1] + SumValues(Tail(values))

\* if (condition) suggestions.push({title, ...}).
Rule(condition, title) == IF condition THEN <<title>> ELSE <<>>

\* mapToSeries: the entries of a bucket map sorted by second.
mapToSeries(bucket) ==
    SortByTime([i \in 1..Cardinality(DOMAIN bucket) |->
        LET k == CHOOSE k \in DOMAIN bucket :
                    Cardinality({j \in DOMAIN bucket : j < k}) = i - 1
        IN Point(k * TimeUnit, bucket[k])])

\* Math.max(...) - Math.min(...) of the times when there are two points or
\* more, otherwise 0.
TimeSpan(points) ==
    IF Len(points) >= 2 THEN MaxTime(points) - MinTime(points) ELSE 0

MaxValue(points) ==
    IF points = <<>> THEN 0
    ELSE CHOOSE v \in {points[i].value : i \in DOMAIN points} :
            \A i \in DOMAIN points : v >= points[i].value

UseTraceFpsAnyValue(wallMs, raw, bucket) ==
    /\ useTraceForSeries(wallMs, raw)
    /\ Cardinality(DOMAIN bucket) > 2
    /\ TimeSpan(mapToSeries(bucket)) * 2 >= wallClockDurationSec(wallMs)

UseTraceFpsAnySpan(wallMs, raw, bucket) ==
    /\ useTraceForSeries(wallMs, raw)
    /\ Cardinality(DOMAIN bucket) > 2
    /\ MaxValue(mapToSeries(bucket)) <= 200

useTraceFps(wallMs, raw, bucket) ==
    /\ useTraceForSeries(wallMs, raw)
    /\ Cardinality(DOMAIN bucket) > 2
    /\ TimeSpan(mapToSeries(bucket)) * 2 >= wallClockDurationSec(wallMs)
    /\ MaxValue(mapToSeries(bucket)) <= 200

\* useTraceCpu and useTraceGpu.
useTraceBusy(wallMs, raw, bucket) ==
    /\ useTraceForSeries(wallMs, raw)
    /\ Cardinality(DOMAIN bucket) > 2
    /\ TimeSpan(mapToSeries(bucket)) * 2 >= wallClockDurationSec(wallMs)

\* useTraceMemory and useTraceDom: memoryTraceMaxTime >= wallClockDurationSec * 0.8.
useTraceCounter(wallMs, raw, points) ==
    /\ useTraceForSeries(wallMs, raw)
    /\ Len(points) > 0
    /\ MaxTime(points) * 10 >= wallClockDurationSec(wallMs) * 8

\* capFps: value: Math.min(120, Math.max(0, p.value)).
capFps(points) ==
    [i \in DOMAIN points |-> [points[i] EXCEPT !.value = Min2(120, Max2(0, @))]]

\* filter(sample => typeof field === "number").
RECURSIVE Defined(_)
Defined(fb) ==
    IF fb = <<>> THEN <<>>
    ELSE IF fb[1].value = Undefined THEN Defined(Tail(fb))
    ELSE <<fb[1]>> \o Defined(Tail(fb))

FallbackSeriesUnfiltered(m, fb) == fb

\* The series the fallback samples give for a metric: the in-page frame
\* rates; cpuBusyMs of every sample; jsHeapMb or nodes of the samples that
\* have one; nothing for the GPU.
FallbackSeries(m, fb) ==
    CASE m \in {"fps", "cpu"} -> fb
      [] m = "gpu" -> <<>>
      [] OTHER -> Defined(fb)

\* The GPU series when the trace holds a single GPU bucket: its value every
\* 10 s from 0, and at wallClockDurationSec.
RECURSIVE EveryTenSeconds(_, _, _)
EveryTenSeconds(t, wallSec, val) ==
    IF t <= wallSec
      THEN <<Point(t, val)>> \o EveryTenSeconds(t + 10 * TimeUnit, wallSec, val)
      ELSE <<>>

SingleBucketLine(wallSec, val) ==
    LET pts == EveryTenSeconds(0, wallSec, val)
    IN IF pts # <<>> /\ pts[Len(pts)].timeSec < wallSec
         THEN Append(pts, Point(wallSec, val))
         ELSE pts

\* parseTrace: the points of the metric's series and where they come from.
parseTraceSeries(m, wallMs, raw, bucket, points, fb) ==
    CASE m = "fps" ->
            IF useTraceFps(wallMs, raw, bucket)
              THEN [source |-> "trace", points |-> capFps(mapToSeries(bucket))]
              ELSE [source |-> "fallback", points |-> capFps(fb)]
      [] m = "cpu" ->
            IF useTraceBusy(wallMs, raw, bucket)
              THEN [source |-> "trace", points |-> mapToSeries(bucket)]
              ELSE [source |-> "fallback", points |-> fb]
      [] m = "gpu" ->
            IF useTraceBusy(wallMs, raw, bucket)
              THEN [source |-> "trace", points |-> mapToSeries(bucket)]
              ELSE IF Len(mapToSeries(bucket)) = 1
                THEN [source |-> "single",
                      points |-> SingleBucketLine(wallClockDurationSec(wallMs),
                                                  mapToSeries(bucket)[1].value)]
                ELSE [source |-> "fallback", points |-> <<>>]
      [] OTHER ->
            IF useTraceCounter(wallMs, raw, points)
              THEN [source |-> "trace", points |-> points]
              ELSE [source |-> "fallback", points |-> Defined(fb)]

\* ---- normalizeReportTimeRange and extendSeriesToFullDuration
\* report.durationMs / 1000.
DurationSec(durationMs) == durationMs * (TimeUnit \div 1000)

\* normalizeReportTimeRange on one series: rescale when the greatest time is
\* past 1.5 durations (mightBeMs), clamp into [0, durationSec], sort.
NormalizedPoints(points, durationSec) ==
    IF points = <<>> THEN <<>>
    ELSE LET mightBeMs == MaxTime(points) * 2 > durationSec * 3
         IN SortByTime([i \in DOMAIN points |->
                [points[i] EXCEPT !.timeSec =
                    Max2(0, Min2(durationSec, IF mightBeMs THEN @ \div 1000 ELSE @))]])

\* while (t < durationSec - 0.5) { push({t, value}); t += step }.
RECURSIVE ForwardFill(_, _, _)
ForwardFill(t, durationSec, val) ==
    IF t < durationSec - TimeUnit \div 2
      THEN <<Point(t, val)>> \o ForwardFill(t + 2 * TimeUnit, durationSec, val)
      ELSE <<>>

NotExtended(points, durationSec) == points

\* extendSeriesToFullDuration on one series.
ExtendedPoints(points, durationSec) ==
    IF points = <<>> THEN <<>>
    ELSE LET minTime == MinTime(points)
             maxTime == MaxTime(points)
             front == IF minTime > TimeUnit \div 2
                        THEN <<Point(0, points[1].value)>> \o points
                        ELSE points
             last == front[Len(front)]
         IN IF maxTime >= durationSec - TimeUnit \div 2
              THEN SortByTime(front)
              ELSE SortByTime(front
                        \o ForwardFill(Min2(maxTime + 2 * TimeUnit, durationSec),
                                       durationSec, last.value)
                        \o <<Point(durationSec, last.value)>>)

\* ---- the pipeline as stopRecording runs it
\* The inputs of one pipeline run.  Trace times come out of tsToSec, which
\* clamps them into [0, wallClockDurationSec]; the GPU has no fallback.
InitReport ==
    /\ activeSession = NoSession
    /\ lastVideoPath = 0
    /\ issued = 0
    /\ kind = [c \in Calls |-> "none"]
    /\ pc = [c \in Calls |-> "idle"]
    /\ result = [c \in Calls |-> "none"]
    /\ argHttp = [c \in Calls |-> FALSE]
    /\ unlinkTarget = [c \in Calls |-> 0]
    /\ issuedWhileDraining = [c \in Calls |-> {}]
    /\ claimed = [c \in Calls |-> NoSession]
    /\ failure = [c \in Calls |-> "none"]
    /\ closeTried = [c \in Calls |-> {}]
    /\ chunksRead = [c \in Calls |-> 0]
    /\ reportKind = [c \in Calls |-> "none"]
    /\ browser = [s \in Calls |-> "none"]
    /\ context = [s \in Calls |-> "none"]
    /\ tabs = [s \in Calls |-> 0]
    /\ videoFile = [s \in Calls |-> "none"]
    /\ recordingStartSet = [s \in Calls |-> FALSE]
    /\ animHandler = [s \in Calls |-> FALSE]
    /\ ctxHandlers = [s \in Calls |-> FALSE]
    /\ intervals = [s \in Calls |-> FALSE]
    /\ samples = [s \in Calls |-> <<>>]
    /\ fpsSamples = [s \in Calls |-> <<>>]
    /\ networkRequests = [s \in Calls |-> <<>>]
    /\ collectedAnimations = [s \in Calls |-> <<>>]
    /\ sampleTicks = [s \in Calls |-> <<>>]
    /\ shotTicks = [s \in Calls |-> <<>>]
    /\ tabInstalling = [s \in Calls |-> {}]
    /\ tabLinking = [s \in Calls |-> {}]
    /\ reqInFlight = [s \in Calls |-> 0]
    /\ events = 0
    /\ QueryIdle
    /\ PagesFresh
    /\ AnalysisOff
    /\ stage = "input"
    /\ report = NoReport
    /\ metric \in Metrics
    /\ startedAt = 1000
    /\ stoppedAt \in {startedAt + w : w \in {4000, 10000}}
    /\ rawTraceSpan \in {0, 3000, 9000000, 700000000}
    /\ traceBucket \in
          IF metric \in {"fps", "cpu", "gpu"}
            THEN UNION {[S -> IF metric = "fps" THEN {60, 250} ELSE {60}] :
                          S \in SUBSET {k \in {0, 1, 3, 9} :
                                          k * 1000 <= stoppedAt - startedAt}}
            ELSE {<<>>}
    /\ tracePoints \in
          IF metric \in {"memory", "domNodes"}
            THEN SeqsUpTo({Point(t, 60) : t \in {u \in SampleTimes :
                              u <= wallClockDurationSec(stoppedAt - startedAt)}},
                          MaxPoints)
            ELSE {<<>>}
    /\ fallback \in
          CASE metric = "gpu" -> {<<>>}
            [] metric = "fps" ->
                  \* also one series of more points than a report has spike frames
                  SeqsUpTo({Point(t, v) : t \in SampleTimes, v \in SampleValues}, MaxPoints)
                    \cup {[i \in 1..(SpikeLimit + 1) |->
                             Point(Tenths(10 * i), <<60, 30, 50, 20, 40, 10>>[i])]}
            [] metric = "cpu" ->
                  SeqsUpTo({Point(t, v) : t \in SampleTimes, v \in SampleValues}, MaxPoints)
            [] OTHER ->
                  SeqsUpTo({Point(t, v) : t \in SampleTimes,
                                          v \in SampleValues \cup {Undefined}}, MaxPoints)
    \* the screenshots of the session, by capture time (2 s, 6 s, ...) and file
    /\ \E shots \in IF metric = "fps"
                       THEN {[i \in 1..n |-> [timeSec |-> Tenths(40 * i - 20), path |-> i]] :
                                n \in 0..MaxShots}
                       ELSE {<<>>} :
          screenshots = [s \in Calls |-> IF s = 1 THEN shots ELSE <<>>]

\* report = await parseTrace(tracePath, traceText, startedAt, stoppedAt, fallback).
ParseTrace ==
    /\ stage = "input"
    /\ stage' = "built"
    /\ LET wallMs == wallClockDurationMs(startedAt, stoppedAt)
           series == parseTraceSeries(metric, wallMs, rawTraceSpan, traceBucket,
                                      tracePoints, fallback)
       IN  /\ report' = [builder |-> "parseTrace",
                         durationMs |-> parseTraceDurationMs(wallMs, rawTraceSpan),
                         source |-> series.source,
                         points |-> series.points]
           \* the rules on the series at hand: avgFps > 0 && avgFps < 50 on
           \* fpsSeries.points, and memoryPoints.length >= 2 with
           \* endMem > startMem * 1.2 on the memoryPoints of the trace
           /\ suggestions' =
                 Rule(metric = "fps"
                        /\ SumValues([i \in DOMAIN series.points |-> series.points[i].value]) > 0
                        /\ SumValues([i \in DOMAIN series.points |-> series.points[i].value])
                              < 50 * Max2(1, Len(series.points)),
                      "Low frame rate")
                 \o Rule(IF metric = "memory" /\ Len(tracePoints) >= 2
                           THEN tracePoints[Len(tracePoints)].value * 10
                                  > tracePoints[1].value * 12
                           ELSE FALSE,
                         "Memory growth")
    /\ UNCHANGED <<metric, startedAt, stoppedAt, rawTraceSpan, traceBucket, tracePoints,
                   fallback>>
    /\ UNCHANGED <<animations, spikeFrames, network, traceStream>>
    /\ UNCHANGED <<sessionVars, queryVars, pageVars, traceEvents, cursor, longTasks,
                   cpuBusyMap, clientCollector, webVitals, ruleInputs, traceText, lineCursor>>

\* parseTrace threw: report = buildFallbackReport(startedAt, stoppedAt, fallback).
BuildFallbackReport ==
    /\ stage = "input"
    /\ stage' = "built"
    /\ report' = [builder |-> "buildFallbackReport",
                  durationMs |-> Max2(0, stoppedAt - startedAt),
                  source |-> "fallback",
                  points |-> FallbackSeries(metric, fallback)]
    \* the one rule of the fallback: totalCpu > durationMs * 0.7, with the
    \* cpuBusyMs of the samples at hand when the metric is the CPU one
    /\ \E high \in IF metric = "cpu"
                      THEN {SumValues([i \in DOMAIN fallback |-> fallback[i].value]) * 10
                              > Max2(0, stoppedAt - startedAt) * 7}
                      ELSE BOOLEAN :
          suggestions' = Rule(high, "High CPU load")
    /\ UNCHANGED <<metric, startedAt, stoppedAt, rawTraceSpan, traceBucket, tracePoints,
                   fallback>>
    /\ UNCHANGED <<animations, spikeFrames, network, traceStream>>
    /\ UNCHANGED <<sessionVars, queryVars, pageVars, traceEvents, cursor, longTasks,
                   cpuBusyMap, clientCollector, webVitals, ruleInputs, traceText, lineCursor>>

\* ---- buildSpikeFrames
buildSpikeFramesFirstShot(points, shots, readable) ==
    IF Len(shots) = 0 \/ Len(points) = 0 \/ 1 \notin readable THEN <<>>
    ELSE [i \in 1..Min2(SpikeLimit, Len(points)) |->
             [timeSec |-> points[i].timeSec, fps |-> points[i].value,
              image |-> shots[1].path]]

\* buildSpikeFrames(report, screenshots) on report.fpsSeries.points, where
\* fs.readFile succeeds for the screenshots in readable and throws for the
\* others.  Every value of a series here is a finite number, so the
\* Number.isFinite filter keeps every point; Array.prototype.sort is stable.
buildSpikeFrames(points, shots, readable) ==
    LET RECURSIVE InsertByValue(_, _)
        InsertByValue(sorted, p) ==
            IF sorted = <<>> THEN <<p>>
            ELSE IF sorted[Len(sorted)].value <= p.value THEN Append(sorted, p)
            ELSE Append(InsertByValue(SubSeq(sorted, 1, Len(sorted) - 1), p),
                        sorted[Len(sorted)])
        RECURSIVE SortedByValue(_)
        SortedByValue(n) ==
            IF n = 0 THEN <<>> ELSE InsertByValue(SortedByValue(n - 1), points[n])
        worstPoints == SubSeq(SortedByValue(Len(points)), 1, Min2(SpikeLimit, Len(points)))
        diff(i, p) == IF shots[i].timeSec >= p.timeSec
                        THEN shots[i].timeSec - p.timeSec
                        ELSE p.timeSec - shots[i].timeSec
        \* reduce keeps the best so far unless a candidate is strictly nearer
        closest(p) == CHOOSE i \in DOMAIN shots :
                          /\ \A j \in DOMAIN shots : diff(i, p) <= diff(j, p)
                          /\ \A j \in 1..(i - 1) : diff(j, p) > diff(i, p)
        RECURSIVE Results(_)
        Results(n) ==
            IF n = 0 THEN <<>>
            ELSE IF closest(worstPoints[n]) \in readable
              THEN Append(Results(n - 1),
                          [timeSec |-> worstPoints[n].timeSec,
                           fps |-> worstPoints[n].value,
                           image |-> shots[closest(worstPoints[n])].path])
              ELSE Results(n - 1)
    IN  IF Len(shots) = 0 \/ Len(points) = 0 THEN <<>> ELSE Results(Len(worstPoints))

\* report.spikeFrames = await buildSpikeFrames(report, screenshots).  The
\* report of a run carries the fps series when the metric followed is fps;
\* for the other metrics the run has no screenshots.
BuildSpikeFrames ==
    /\ stage = "built"
    /\ stage' = "frames"
    /\ \E readable \in SUBSET DOMAIN screenshots[1] :
          spikeFrames' = buildSpikeFrames(report.points, screenshots[1], readable)
    /\ UNCHANGED <<metric, startedAt, stoppedAt, rawTraceSpan, traceBucket, tracePoints,
                   fallback, report>>
    /\ UNCHANGED <<traceEvents, cursor, longTasks, cpuBusyMap, clientCollector, webVitals,
                   ruleInputs, suggestions, traceText, lineCursor, animations, network, traceStream>>
    /\ UNCHANGED <<sessionVars, queryVars, pageVars>>

\* normalizeReportTimeRange(report): the series, then the spike frames
\* (t > durationSec * 1.5 ? t / 1000 : t, clamped into [0, durationSec]),
\* then extendSeriesToFullDuration(report).
NormalizeReportTimeRange ==
    /\ stage = "frames"
    /\ stage' = "normalized"
    /\ report' = [report EXCEPT !.points =
                      ExtendedPoints(NormalizedPoints(@, DurationSec(report.durationMs)),
                                     DurationSec(report.durationMs))]
    /\ spikeFrames' =
          [i \in DOMAIN spikeFrames |->
              [spikeFrames[i] EXCEPT !.timeSec =
                  Max2(0, Min2(DurationSec(report.durationMs),
                               IF @ * 2 > DurationSec(report.durationMs) * 3
                                 THEN @ \div 1000 ELSE @))]]
    /\ UNCHANGED <<metric, startedAt, stoppedAt, rawTraceSpan, traceBucket, tracePoints,
                   fallback>>
    /\ UNCHANGED <<traceEvents, cursor, longTasks, cpuBusyMap, clientCollector, webVitals,
                   ruleInputs, suggestions, traceText, lineCursor, animations, network, traceStream>>
    /\ UNCHANGED <<sessionVars, queryVars, pageVars>>

NextReport ==
    \/ ParseTrace
    \/ BuildFallbackReport
    \/ BuildSpikeFrames
    \/ NormalizeReportTimeRange

ReportSpec == InitReport /\ [][NextReport]_vars

TraceEvent(name, cat, ph, ts, dur) ==
    [name |-> name, cat |-> cat, ph |-> ph, ts |-> ts, dur |-> dur]

\* Main-thread tasks of 60 ms at timestamps (native units) that give spans of
\* 2,000 (2 s in ms), 1,000,000 (the threshold), 2,000,000 (2 s in
\* microseconds) and 700,000,000 with an event half way, tasks of 40 and 50 ms
\* at the start of the trace, a RunTask begin-phase record carrying a dur, and a
\* complete event of another name.
TraceEventSamples ==
    {TraceEvent("RunTask", "toplevel", "X", ts, 60000) :
        ts \in {0, 2000, 1000000, 2000000, 350000000, 700000000}}
    \cup {TraceEvent("RunTask", "toplevel", "X", 0, dur) : dur \in {40000, 50000, 60000}}
    \cup {TraceEvent("RunTask", "toplevel", "B", 2000, 60000),
          TraceEvent("Layout", "devtools.timeline", "X", 2000, 60000)}

\* startTs and endTs: the least and the greatest ts of the events, 0 and 0
\* when there is none.
StartTs(evs) ==
    IF evs = <<>> THEN 0
    ELSE CHOOSE t \in {evs[i].ts : i \in DOMAIN evs} :
            \A i \in DOMAIN evs : t <= evs[i].ts

\* rawTraceSpan = endTs - startTs, endTs the greatest ts of the events.
RawTraceSpan(evs) ==
    IF evs = <<>> THEN 0
    ELSE (CHOOSE t \in {evs[i].ts : i \in DOMAIN evs} : \A i \in DOMAIN evs : t >= evs[i].ts)
         - StartTs(evs)

\* const traceTsToSec = traceTsIsMicroseconds ? 1_000_000 : 1000.
traceTsToSec(raw) == IF traceTsIsMicroseconds(raw) THEN 1000000 ELSE 1000

\* The ratio (ts - startTs) / rawTraceSpan is held in 1/RatioSteps.
RatioSteps == 1000

\* tsToSec, in 1/TimeUnit seconds: a trace whose span is too large is laid
\* proportionally over the wall clock, ratio * wallClockDurationSec with the
\* ratio (ts - startTs) / rawTraceSpan held in 1/RatioSteps; otherwise the
\* offset is divided by the unit divisor; both clamped into
\* [0, wallClockDurationSec].
tsToSec(ts, start, raw, wallMs) ==
    LET delta == ts - start
        wallSec == wallClockDurationSec(wallMs)
        divisor == traceTsToSec(raw)
    IN  IF traceSpanTooLarge(wallMs, raw) /\ raw > 0
          THEN Max2(0, Min2(wallSec,
                            ((delta \div (raw \div RatioSteps)) * wallSec) \div RatioSteps))
          ELSE Max2(0, Min2(wallSec,
                            IF divisor >= TimeUnit THEN delta \div (divisor \div TimeUnit)
                            ELSE delta * (TimeUnit \div divisor)))

addToBucketLastWins(bucket, sec, value) ==
    [k \in DOMAIN bucket \cup {sec \div TimeUnit} |->
        IF k = sec \div TimeUnit THEN value ELSE bucket[k]]

\* addToBucket: bucket.set(second, (bucket.get(second) ?? 0) + value) with
\* second = Math.floor(tsToSec(ts)).
addToBucket(bucket, sec, value) ==
    [k \in DOMAIN bucket \cup {sec \div TimeUnit} |->
        (IF k \in DOMAIN bucket THEN bucket[k] ELSE 0)
        + (IF k = sec \div TimeUnit THEN value ELSE 0)]

\* One turn of for (const event of events): the CPU-busy bucket and the
\* long-task list.
ExtractEvent ==
    /\ stage = "events"
    /\ cursor < Len(traceEvents)
    /\ cursor' = cursor + 1
    /\ LET e == traceEvents[cursor + 1]
           sec == tsToSec(e.ts, StartTs(traceEvents), RawTraceSpan(traceEvents),
                          wallClockDurationMs(startedAt, stoppedAt))
       IN  \* if (event.ph === "X" && dur > 0), cat.includes("toplevel") ||
           \* name === "RunTask": dur / 1000 ms go to the bucket of the second
           /\ cpuBusyMap' = IF e.ph = "X" /\ e.dur > 0
                                 /\ (e.cat = "toplevel" \/ e.name = "RunTask")
                              THEN addToBucket(cpuBusyMap, sec, e.dur \div 1000)
                              ELSE cpuBusyMap
           \* if (name === "RunTask" && dur / 1000 > 50) longTasks.push(...)
           /\ longTasks' = IF e.name = "RunTask" /\ e.dur > 50 * 1000
                             THEN Append(longTasks, [name |-> e.name,
                                                     durationMs |-> e.dur \div 1000,
                                                     startSec |-> sec])
                             ELSE longTasks
    /\ UNCHANGED <<animations, spikeFrames, network, traceStream>>
    /\ UNCHANGED <<traceEvents, clientCollector, webVitals, ruleInputs, suggestions, traceText,
                   lineCursor, sessionVars, queryVars,
                   reportVars, pageVars>>

\* The loop has gone through every event.
ExtractDone ==
    /\ stage = "events"
    /\ cursor = Len(traceEvents)
    /\ stage' = "extracted"
    \* mapToSeries(cpuBusyMap, "CPU Busy", "ms").points
    /\ tracePoints' = mapToSeries(cpuBusyMap)
    /\ UNCHANGED <<metric, startedAt, stoppedAt, rawTraceSpan, traceBucket, fallback, report>>
    /\ UNCHANGED <<sessionVars, queryVars, pageVars, analysisVars>>

RECURSIVE TbtUnclamped(_)
TbtUnclamped(durations) ==
    IF durations = <<>> THEN 0 ELSE (durations[1] - 50) + TbtUnclamped(Tail(durations))

\* reduce((sum, task) => sum + Math.max(0, task.duration - 50), 0).
RECURSIVE Tbt(_)
Tbt(durations) ==
    IF durations = <<>> THEN 0 ELSE Max2(0, durations[1] - 50) + Tbt(Tail(durations))

\* deriveWebVitals(collector, longTasks).
deriveWebVitals(collector, summary) ==
    IF collector = NoCollector
      THEN [tbtMs |-> 0, longTaskCount |-> summary.count,
            longTaskTotalMs |-> summary.totalTimeMs]
      ELSE [tbtMs |-> Tbt(collector.longTasks),
            longTaskCount |-> Len(collector.longTasks),
            longTaskTotalMs |-> SumValues(collector.longTasks)]

\* stopRecording: report.webVitals = deriveWebVitals(clientCollector,
\* report.longTasks), with the snapshot read before the trace was stopped.
DeriveWebVitals ==
    /\ stage = "extracted"
    /\ stage' = "vitals"
    \* the snapshot is null, or the collector with its long tasks of 30, 70
    \* and 120 ms; report.longTasks holds count and totalTimeMs of the trace
    /\ \E collector \in {NoCollector} \cup
                         {[snapshot |-> TRUE, longTasks |-> d] :
                             d \in SeqsUpTo({30, 70, 120}, MaxLongTasks)} :
          /\ clientCollector' = collector
          /\ webVitals' = deriveWebVitals(collector,
                  [count |-> Len(longTasks),
                   totalTimeMs |-> SumValues([i \in DOMAIN longTasks |-> longTasks[i].durationMs])])
    /\ UNCHANGED <<metric, startedAt, stoppedAt, rawTraceSpan, traceBucket, tracePoints,
                   fallback, report>>
    /\ UNCHANGED <<animations, spikeFrames, network, traceStream>>
    /\ UNCHANGED <<sessionVars, queryVars, pageVars, traceEvents, cursor, longTasks, cpuBusyMap,
                   ruleInputs, suggestions, traceText, lineCursor>>

----------------------------------------------------------------------------
\* The suggestion rules: parseTrace, buildFallbackReport and stopRecording.

\* durationMs of the report the rules are given.
RuleDurationMs == 1000

\* The figures of a report, each drawn from values on both sides of the
\* threshold its rule compares it with; cls is held in hundredths.  A report
\* buildFallbackReport built counts no long task, no layout and no paint.
RuleInputs ==
    {in \in [traceParsed : BOOLEAN,
             fps : SeqsUpTo({0, 42, 60}, MaxFpsPoints),
             longTaskCount : {0, 10, 11},
             layoutCount : {0, 100, 101},
             layoutTimeMs : {150, 151},
             paintCount : {0, 150, 151},
             layoutAnimations : {0, 1},
             memoryPoints : {<<>>, <<100>>, <<100, 120>>, <<100, 121>>},
             totalCpu : {700, 701},
             cls : {0, 11},
             tbtMs : {300, 301}] :
        IF in.traceParsed
          THEN in.longTaskCount # 0 /\ in.layoutCount # 0 /\ in.paintCount # 0
          ELSE in.longTaskCount = 0 /\ in.layoutCount = 0 /\ in.paintCount = 0}

\* stopRecording: report = await parseTrace(...), the trace was readable.
ParseTraceReport ==
    /\ stage = "rules"
    /\ ruleInputs.traceParsed
    /\ stage' = "report"
    /\ suggestions' =
          \* avgFps > 0 && avgFps < 50, avgFps the sum over Math.max(1, length)
          Rule(SumValues(ruleInputs.fps) > 0
                 /\ SumValues(ruleInputs.fps) < 50 * Max2(1, Len(ruleInputs.fps)),
               "Low frame rate")
          \* longTasks.length > 10
          \o Rule(ruleInputs.longTaskCount > 10, "Long tasks detected")
          \* layoutCount > 100 || layoutTimeMs > durationMs * 0.15
          \o Rule(ruleInputs.layoutCount > 100
                    \/ ruleInputs.layoutTimeMs * 100 > RuleDurationMs * 15,
                  "High layout cost")
          \* paintCount > 150
          \o Rule(ruleInputs.paintCount > 150, "Frequent repaints")
          \* layoutAnimations.length > 0
          \o Rule(ruleInputs.layoutAnimations > 0, "Layout-triggering animations")
          \* memoryPoints.length >= 2 and endMem > startMem * 1.2
          \o Rule(IF Len(ruleInputs.memoryPoints) >= 2
                    THEN ruleInputs.memoryPoints[Len(ruleInputs.memoryPoints)] * 10
                           > ruleInputs.memoryPoints[1] * 12
                    ELSE FALSE,
                  "Memory growth")
    /\ UNCHANGED <<metric, startedAt, stoppedAt, rawTraceSpan, traceBucket, tracePoints,
                   fallback, report>>
    /\ UNCHANGED <<animations, spikeFrames, network, traceStream>>
    /\ UNCHANGED <<sessionVars, queryVars, pageVars, traceEvents, cursor, longTasks, cpuBusyMap,
                   clientCollector, webVitals, ruleInputs,
                   traceText, lineCursor>>

\* stopRecording: parseTrace threw, report = buildFallbackReport(...).
FallbackReport ==
    /\ stage = "rules"
    /\ ~ruleInputs.traceParsed
    /\ stage' = "report"
    \* totalCpu > durationMs * 0.7
    /\ suggestions' = Rule(ruleInputs.totalCpu * 10 > RuleDurationMs * 7, "High CPU load")
    /\ UNCHANGED <<metric, startedAt, stoppedAt, rawTraceSpan, traceBucket, tracePoints,
                   fallback, report>>
    /\ UNCHANGED <<animations, spikeFrames, network, traceStream>>
    /\ UNCHANGED <<sessionVars, queryVars, pageVars, traceEvents, cursor, longTasks, cpuBusyMap,
                   clientCollector, webVitals, ruleInputs,
                   traceText, lineCursor>>

\* stopRecording: the two rules on report.webVitals, pushed after
\* deriveWebVitals.
StopSuggestions ==
    /\ stage = "report"
    /\ stage' = "suggested"
    /\ suggestions' = suggestions
                      \* report.webVitals.cls && report.webVitals.cls > 0.1
                      \o Rule(ruleInputs.cls # 0 /\ ruleInputs.cls > 10,
                              "Layout shifts detected")
                      \* report.webVitals.tbtMs > 300
                      \o Rule(ruleInputs.tbtMs > 300, "High total blocking time")
    /\ UNCHANGED <<metric, startedAt, stoppedAt, rawTraceSpan, traceBucket, tracePoints,
                   fallback, report>>
    /\ UNCHANGED <<animations, spikeFrames, network, traceStream>>
    /\ UNCHANGED <<sessionVars, queryVars, pageVars, traceEvents, cursor, longTasks, cpuBusyMap,
                   clientCollector, webVitals, ruleInputs,
                   traceText, lineCursor>>

----------------------------------------------------------------------------
\* parseTraceEvents: the strict parse and the newline-delimited fallback.

\* One line of a payload, by what JSON.parse makes of it: json is whether it
\* parses, object whether the value is an object or an array (the in operator
\* throws on anything else), isArray whether it is an array holding items,
\* keys the keys with a value that is not null, and named whether the keys
\* name and ts are both there with one of them not null.  Events are held by
\* their names.
Line(json, object, isArray, items, keys, te, ev, single, named) ==
    [blank |-> FALSE, json |-> json, object |-> object, isArray |-> isArray,
     items |-> items, keys |-> keys, traceEvents |-> te, events |-> ev,
     event |-> single, named |-> named]

\* The lines of the payloads: blank, malformed, null, a number, an array,
\* an object with traceEvents, with traceEvents and events, with events,
\* with event, a bare event, an object with name but no ts, and an object of
\* no accepted shape.
LineSamples ==
    {[Line(FALSE, FALSE, FALSE, <<>>, {}, <<>>, <<>>, <<>>, FALSE) EXCEPT !.blank = TRUE],
     Line(FALSE, FALSE, FALSE, <<>>, {}, <<>>, <<>>, <<>>, FALSE),
     Line(TRUE, FALSE, FALSE, <<>>, {"null"}, <<>>, <<>>, <<>>, FALSE),
     Line(TRUE, FALSE, FALSE, <<>>, {}, <<>>, <<>>, <<>>, FALSE),
     Line(TRUE, TRUE, TRUE, <<"a", "b">>, {}, <<>>, <<>>, <<>>, FALSE),
     Line(TRUE, TRUE, FALSE, <<>>, {"traceEvents"}, <<"a">>, <<>>, <<>>, FALSE),
     Line(TRUE, TRUE, FALSE, <<>>, {"traceEvents", "events"}, <<"a">>, <<"b">>, <<>>, FALSE),
     Line(TRUE, TRUE, FALSE, <<>>, {"events"}, <<>>, <<"b", "c">>, <<>>, FALSE),
     Line(TRUE, TRUE, FALSE, <<>>, {"event"}, <<>>, <<>>, <<"c">>, FALSE),
     Line(TRUE, TRUE, FALSE, <<>>, {"name", "ts"}, <<>>, <<>>, <<"d">>, TRUE),
     Line(TRUE, TRUE, FALSE, <<>>, {"name"}, <<>>, <<>>, <<"d">>, FALSE),
     Line(TRUE, TRUE, FALSE, <<>>, {"type"}, <<>>, <<>>, <<>>, FALSE)}

\* .split(/\r?\n/).map((line) => line.trim()).filter(Boolean).
NonBlank(text) == SelectSeq(text, LAMBDA l : ~l.blank)

\* The try block of the strict parse throws: JSON.parse fails (the text is
\* one JSON value when it has a single line that is one, whitespace around
\* it apart), or the value is null and parsed.traceEvents is read from it.
StrictThrows(text) ==
    IF Len(NonBlank(text)) = 1 /\ NonBlank(text)[1].json
      THEN ~NonBlank(text)[1].object /\ "null" \in NonBlank(text)[1].keys
      ELSE TRUE

\* Array.isArray(parsed) ? parsed : parsed.traceEvents ?? [].
StrictEvents(text) ==
    LET parsed == NonBlank(text)[1]
    IN  IF parsed.isArray THEN parsed.items
        ELSE IF "traceEvents" \in parsed.keys THEN parsed.traceEvents
        ELSE <<>>

WrappedEventSkipped(parsedLine) ==
    IF parsedLine.isArray THEN parsedLine.items
    ELSE IF "traceEvents" \in parsedLine.keys THEN parsedLine.traceEvents
    ELSE IF "events" \in parsedLine.keys THEN parsedLine.events
    ELSE IF "name" \in parsedLine.keys /\ "ts" \in parsedLine.keys /\ parsedLine.named
      THEN parsedLine.event
    ELSE <<>>

\* What the if chain of the line loop pushes for a line that parsed to an
\* object.
Pushed(parsedLine) ==
    IF parsedLine.isArray THEN parsedLine.items
    ELSE IF "traceEvents" \in parsedLine.keys THEN parsedLine.traceEvents
    ELSE IF "events" \in parsedLine.keys THEN parsedLine.events
    ELSE IF "event" \in parsedLine.keys THEN parsedLine.event
    ELSE IF "name" \in parsedLine.keys /\ "ts" \in parsedLine.keys /\ parsedLine.named
      THEN parsedLine.event
    ELSE <<>>

\* The try block of one line throws: JSON.parse fails, or the in operator is
\* applied to a value that is not an object.
LineThrows(line) == ~line.json \/ ~line.object

\* The strict parse succeeds and parseTraceEvents returns.
DecodeStrict ==
    /\ stage = "payload"
    /\ ~StrictThrows(traceText)
    /\ stage' = "decoded"
    /\ traceEvents' = StrictEvents(traceText)
    /\ UNCHANGED <<metric, startedAt, stoppedAt, rawTraceSpan, traceBucket, tracePoints,
                   fallback, report>>
    /\ UNCHANGED <<animations, spikeFrames, network, traceStream>>
    /\ UNCHANGED <<cursor, longTasks, cpuBusyMap, clientCollector, webVitals, ruleInputs,
                   suggestions, traceText, lineCursor,
                   sessionVars, queryVars, pageVars>>

\* The strict parse throws: the catch block splits the payload into lines.
DecodeFallback ==
    /\ stage = "payload"
    /\ StrictThrows(traceText)
    /\ stage' = "lines"
    /\ traceText' = NonBlank(traceText)
    /\ lineCursor' = 0
    /\ traceEvents' = <<>>
    /\ UNCHANGED <<metric, startedAt, stoppedAt, rawTraceSpan, traceBucket, tracePoints,
                   fallback, report>>
    /\ UNCHANGED <<animations, spikeFrames, network, traceStream>>
    /\ UNCHANGED <<cursor, longTasks, cpuBusyMap, clientCollector, webVitals, ruleInputs,
                   suggestions,
                   sessionVars, queryVars, pageVars>>

\* One turn of for (const line of lines).
DecodeLine ==
    /\ stage = "lines"
    /\ lineCursor < Len(traceText)
    /\ lineCursor' = lineCursor + 1
    /\ traceEvents' = IF LineThrows(traceText[lineCursor + 1])
                        THEN traceEvents
                        ELSE traceEvents \o Pushed(traceText[lineCursor + 1])
    /\ UNCHANGED <<metric, startedAt, stoppedAt, rawTraceSpan, traceBucket, tracePoints,
                   fallback, report, stage>>
    /\ UNCHANGED <<animations, spikeFrames, network, traceStream>>
    /\ UNCHANGED <<cursor, longTasks, cpuBusyMap, clientCollector, webVitals, ruleInputs,
                   suggestions, traceText,
                   sessionVars, queryVars, pageVars>>

\* return events, after the last line.
DecodeReturn ==
    /\ stage = "lines"
    /\ lineCursor = Len(traceText)
    /\ stage' = "decoded"
    /\ UNCHANGED <<metric, startedAt, stoppedAt, rawTraceSpan, traceBucket, tracePoints,
                   fallback, report>>
    /\ UNCHANGED <<sessionVars, queryVars, pageVars, analysisVars>>

\* ---- inferBottleneck
\* A string is the sequence of its tokens ("margin-left" is <<"margin", "-left">>),
\* so that Set.has is equality with a member, includes is the presence of a
\* token and startsWith is the first token.
MaxProperties == 2
MaxNameTokens == 2

LAYOUT_TRIGGERING_PROPS ==
    {<<"width">>, <<"height">>, <<"top">>, <<"left">>, <<"right">>, <<"bottom">>,
     <<"margin">>, <<"padding">>, <<"border">>, <<"font-size">>, <<"display">>,
     <<"position">>}

PAINT_TRIGGERING_PROPS ==
    {<<"color">>, <<"background">>, <<"box-", "shadow">>, <<"outline">>, <<"filter">>,
     <<"border-", "radius">>}

inferBottleneckPaintFirst(properties, animationName) ==
    IF \E i \in DOMAIN properties : properties[i] \in PAINT_TRIGGERING_PROPS
      THEN "paint"
      ELSE IF \E i \in DOMAIN properties : properties[i] \in LAYOUT_TRIGGERING_PROPS
        THEN "layout"
        ELSE "undefined"

\* inferBottleneck(properties, animationName); absent properties and an absent
\* name are the empty ones (properties?.length, animationName ?? "").
inferBottleneck(properties, animationName) ==
    LET toLowerCase(s) == [i \in DOMAIN s |->
                              CASE s[i] = "Width" -> "width"
                                [] s[i] = "Fade" -> "fade"
                                [] OTHER -> s[i]]
        includes(s, word) == \E i \in DOMAIN s : s[i] = word
        startsWith(s, word) == s # <<>> /\ s[1] = word
        lower == [i \in DOMAIN properties |-> toLowerCase(properties[i])]
        name == toLowerCase(animationName)
    IN  IF Len(properties) > 0
           /\ \E i \in DOMAIN lower :
                 \/ lower[i] \in LAYOUT_TRIGGERING_PROPS
                 \/ includes(lower[i], "margin")
                 \/ includes(lower[i], "padding")
          THEN "layout"
        ELSE IF Len(properties) > 0
                /\ \E i \in DOMAIN lower :
                      \/ lower[i] \in PAINT_TRIGGERING_PROPS
                      \/ includes(lower[i], "shadow")
                      \/ includes(lower[i], "background")
          THEN "paint"
        ELSE IF Len(properties) > 0
                /\ \E i \in DOMAIN lower : lower[i] \in {<<"transform">>, <<"opacity">>}
          THEN "compositor"
        ELSE IF startsWith(name, "cc-") THEN "compositor"
        ELSE IF startsWith(name, "blink-") \/ includes(name, "style") THEN "layout"
        ELSE IF includes(name, "fade") \/ includes(name, "opacity")
                   \/ includes(name, "transform")
          THEN "compositor"
        ELSE IF includes(name, "skeleton") \/ includes(name, "shimmer")
                   \/ includes(name, "pulse")
          THEN "compositor"
        ELSE "undefined"

\* animations: collectedAnimations.map(a => ({..., bottleneckHint:
\* inferBottleneck(a.properties, a.name)})).
MapAnimations ==
    /\ stage = "animations"
    /\ stage' = "mapped"
    /\ animations' = [i \in DOMAIN animations |->
                         [animations[i] EXCEPT !.bottleneckHint =
                             inferBottleneck(animations[i].properties, animations[i].name)]]
    /\ UNCHANGED <<metric, startedAt, stoppedAt, rawTraceSpan, traceBucket, tracePoints,
                   fallback, report>>
    /\ UNCHANGED <<traceEvents, cursor, longTasks, cpuBusyMap, clientCollector, webVitals,
                   ruleInputs, suggestions, traceText, lineCursor, spikeFrames, network, traceStream>>
    /\ UNCHANGED <<sessionVars, queryVars, pageVars>>

\* ---- endCdpTrace and readTraceStream
\* A chunk is the lines it holds and its eof flag.
ReadTraceChunkPastEof ==
    /\ stage = "ioRead"
    /\ traceStream.reads < Len(traceStream.chunks)
    /\ traceText' = traceText \o traceStream.chunks[traceStream.reads + 1].data
    /\ traceStream' = [traceStream EXCEPT !.reads = @ + 1]
    /\ stage' = IF traceStream.reads + 1 = Len(traceStream.chunks) THEN "ioClose" ELSE stage
    /\ UNCHANGED <<metric, startedAt, stoppedAt, rawTraceSpan, traceBucket, tracePoints,
                   fallback, report>>
    /\ UNCHANGED <<traceEvents, cursor, longTasks, cpuBusyMap, clientCollector, webVitals,
                   ruleInputs, suggestions, lineCursor, animations, spikeFrames, network>>
    /\ UNCHANGED <<sessionVars, queryVars, pageVars>>

\* endCdpTrace: Tracing.end is sent; Tracing.tracingComplete resolves with
\* the stream handle, or the command is rejected.
EndCdpTrace ==
    /\ stage = "tracingEnd"
    /\ \/ /\ traceStream' = [traceStream EXCEPT !.complete = TRUE]
          /\ stage' = "ioRead"
       \/ /\ stage' = "threw"
          /\ UNCHANGED traceStream
    /\ UNCHANGED <<metric, startedAt, stoppedAt, rawTraceSpan, traceBucket, tracePoints,
                   fallback, report>>
    /\ UNCHANGED <<traceEvents, cursor, longTasks, cpuBusyMap, clientCollector, webVitals,
                   ruleInputs, suggestions, traceText, lineCursor, animations, spikeFrames,
                   network>>
    /\ UNCHANGED <<sessionVars, queryVars, pageVars>>

\* readTraceStream, one turn of while (true): IO.read is answered with the
\* next chunk, result += chunk.data, and eof leaves the loop; or the command
\* is rejected.
ReadTraceChunk ==
    /\ stage = "ioRead"
    /\ \/ /\ traceStream.reads < Len(traceStream.chunks)
          /\ traceText' = traceText \o traceStream.chunks[traceStream.reads + 1].data
          /\ traceStream' = [traceStream EXCEPT !.reads = @ + 1]
          /\ stage' = IF traceStream.chunks[traceStream.reads + 1].eof
                        THEN "ioClose" ELSE stage
       \/ /\ stage' = "threw"
          /\ UNCHANGED <<traceText, traceStream>>
    /\ UNCHANGED <<metric, startedAt, stoppedAt, rawTraceSpan, traceBucket, tracePoints,
                   fallback, report>>
    /\ UNCHANGED <<traceEvents, cursor, longTasks, cpuBusyMap, clientCollector, webVitals,
                   ruleInputs, suggestions, lineCursor, animations, spikeFrames, network>>
    /\ UNCHANGED <<sessionVars, queryVars, pageVars>>

\* readTraceStream: IO.close is sent; answered, the result is returned and
\* handed to parseTrace; rejected, readTraceStream throws.
CloseTraceStream ==
    /\ stage = "ioClose"
    /\ traceStream' = [traceStream EXCEPT !.closes = @ + 1]
    /\ stage' \in {"payload", "threw"}
    /\ UNCHANGED <<metric, startedAt, stoppedAt, rawTraceSpan, traceBucket, tracePoints,
                   fallback, report>>
    /\ UNCHANGED <<traceEvents, cursor, longTasks, cpuBusyMap, clientCollector, webVitals,
                   ruleInputs, suggestions, traceText, lineCursor, animations, spikeFrames,
                   network>>
    /\ UNCHANGED <<sessionVars, queryVars, pageVars>>

\* ---- networkSummary and networkRequests
\* parseTrace: the Resource* events of the loop fill the networkRequests map
\* (a Map lists its keys in insertion order), totalTransfer and
\* totalNetworkLatency; requestList is fallback.networkRequests when it is not
\* empty and the entries of the map otherwise.  averageLatencyMs is held in
\* 1/RatioSteps ms.
NetworkSummary ==
    /\ stage = "network"
    /\ stage' = "summarised"
    /\ report' = [NoReport EXCEPT !.builder = "parseTrace"]
    /\ LET RECURSIVE Loop(_)
           Loop(n) ==
               IF n = 0
                 THEN [order |-> <<>>, entry |-> <<>>, totalTransfer |-> 0,
                       totalNetworkLatency |-> 0]
                 ELSE LET acc == Loop(n - 1)
                          event == traceEvents[n]
                          id == event.requestId
                      IN  IF event.name = "ResourceSendRequest"
                            THEN [acc EXCEPT
                                    !.order = IF id \in DOMAIN acc.entry THEN @ ELSE Append(@, id),
                                    !.entry = (id :> [startTs |-> event.ts, endTs |-> Undefined,
                                                      transferSize |-> Undefined]) @@ @]
                          ELSE IF event.name = "ResourceFinish" /\ id \in DOMAIN acc.entry
                            THEN [acc EXCEPT
                                    !.entry[id].endTs = event.ts,
                                    !.entry[id].transferSize = event.encodedDataLength,
                                    !.totalTransfer =
                                        IF event.encodedDataLength # Undefined
                                          THEN @ + event.encodedDataLength ELSE @,
                                    !.totalNetworkLatency =
                                        @ + (event.ts - acc.entry[id].startTs) \div 1000]
                          ELSE acc
           loop == Loop(Len(traceEvents))
           requestList ==
               IF Len(networkRequests[1]) > 0
                 THEN networkRequests[1]
                 ELSE [i \in DOMAIN loop.order |->
                          LET request == loop.entry[loop.order[i]]
                          IN  [transferSize |-> request.transferSize,
                               durationMs |->
                                  IF request.endTs \notin {Undefined, 0}
                                    THEN (request.endTs - request.startTs) \div 1000
                                    ELSE Undefined]]
       IN  network' = [requests |-> Len(requestList),
                       totalBytes |-> loop.totalTransfer,
                       averageLatencyMs |->
                          IF Len(requestList) = 0 THEN 0
                          ELSE (loop.totalNetworkLatency * RatioSteps) \div Len(requestList),
                       networkRequests |-> requestList]
    /\ UNCHANGED <<metric, startedAt, stoppedAt, rawTraceSpan, traceBucket, tracePoints,
                   fallback>>
    /\ UNCHANGED <<traceEvents, cursor, longTasks, cpuBusyMap, clientCollector, webVitals,
                   ruleInputs, suggestions, traceText, lineCursor, animations, spikeFrames,
                   traceStream>>
    /\ UNCHANGED <<sessionVars, queryVars, pageVars>>

\* buildFallbackReport: the summary is reduced from fallback.networkRequests,
\* which is also the list.
FallbackNetworkSummary ==
    /\ stage = "network"
    /\ stage' = "summarised"
    /\ report' = [NoReport EXCEPT !.builder = "buildFallbackReport"]
    /\ LET requests == networkRequests[1]
           RECURSIVE Sum(_, _)
           Sum(n, field) ==
               IF n = 0 THEN 0
               ELSE Sum(n - 1, field)
                      + (IF requests[n][field] = Undefined THEN 0 ELSE requests[n][field])
       IN  network' = [requests |-> Len(requests),
                       totalBytes |-> Sum(Len(requests), "transferSize"),
                       averageLatencyMs |->
                          IF Len(requests) = 0 THEN 0
                          ELSE (Sum(Len(requests), "durationMs") * RatioSteps)
                                  \div Len(requests),
                       networkRequests |-> requests]
    /\ UNCHANGED <<metric, startedAt, stoppedAt, rawTraceSpan, traceBucket, tracePoints,
                   fallback>>
    /\ UNCHANGED <<traceEvents, cursor, longTasks, cpuBusyMap, clientCollector, webVitals,
                   ruleInputs, suggestions, traceText, lineCursor, animations, spikeFrames,
                   traceStream>>
    /\ UNCHANGED <<sessionVars, queryVars, pageVars>>

\* The analysis of a stopped session, entered at one of its stages with
\* inputs from bounded sets: a trace stream to read, a payload to decode,
\* decoded events to extract, the figures of a report to give suggestions, a
\* collected animation to classify, or the requests of the session to sum up.
InitTrace ==
    /\ activeSession = NoSession
    /\ lastVideoPath = 0
    /\ issued = 0
    /\ kind = [c \in Calls |-> "none"]
    /\ pc = [c \in Calls |-> "idle"]
    /\ result = [c \in Calls |-> "none"]
    /\ argHttp = [c \in Calls |-> FALSE]
    /\ unlinkTarget = [c \in Calls |-> 0]
    /\ issuedWhileDraining = [c \in Calls |-> {}]
    /\ claimed = [c \in Calls |-> NoSession]
    /\ failure = [c \in Calls |-> "none"]
    /\ closeTried = [c \in Calls |-> {}]
    /\ chunksRead = [c \in Calls |-> 0]
    /\ reportKind = [c \in Calls |-> "none"]
    /\ browser = [s \in Calls |-> "none"]
    /\ context = [s \in Calls |-> "none"]
    /\ tabs = [s \in Calls |-> 0]
    /\ videoFile = [s \in Calls |-> "none"]
    /\ recordingStartSet = [s \in Calls |-> FALSE]
    /\ animHandler = [s \in Calls |-> FALSE]
    /\ ctxHandlers = [s \in Calls |-> FALSE]
    /\ intervals = [s \in Calls |-> FALSE]
    /\ samples = [s \in Calls |-> <<>>]
    /\ fpsSamples = [s \in Calls |-> <<>>]
    /\ screenshots = [s \in Calls |-> <<>>]
    /\ collectedAnimations = [s \in Calls |-> <<>>]
    /\ sampleTicks = [s \in Calls |-> <<>>]
    /\ shotTicks = [s \in Calls |-> <<>>]
    /\ tabInstalling = [s \in Calls |-> {}]
    /\ tabLinking = [s \in Calls |-> {}]
    /\ reqInFlight = [s \in Calls |-> 0]
    /\ events = 0
    /\ QueryIdle
    /\ PagesFresh
    /\ metric = "none"
    /\ startedAt = 1000
    /\ rawTraceSpan = 0
    /\ traceBucket = <<>>
    /\ tracePoints = <<>>
    /\ fallback = <<>>
    /\ cursor = 0
    /\ longTasks = <<>>
    /\ cpuBusyMap = <<>>
    /\ clientCollector = NoCollector
    /\ webVitals = [tbtMs |-> 0, longTaskCount |-> 0, longTaskTotalMs |-> 0]
    /\ suggestions = <<>>
    /\ lineCursor = 0
    /\ spikeFrames = <<>>
    /\ network = NoNetwork
    /\ report = NoReport
    /\ \/ /\ stage = "tracingEnd"
          \* the stream ends with an eof chunk; a chunk holds a blank line,
          \* a bare event or nothing
          /\ \E chunks \in SeqsUpTo([data : SeqsUpTo({l \in LineSamples : l.blank \/ l.named}, 1),
                                       eof : BOOLEAN], MaxChunks + 1) :
                /\ chunks # <<>>
                /\ chunks[Len(chunks)].eof
                /\ traceStream = [NoStream EXCEPT !.chunks = chunks]
          /\ traceText = <<>>
          /\ traceEvents = <<>>
          /\ stoppedAt = startedAt + RuleDurationMs
          /\ ruleInputs = [traceParsed |-> FALSE]
          /\ animations = <<>>
          /\ networkRequests = [s \in Calls |-> <<>>]
       \/ /\ stage = "payload"
          /\ traceText \in SeqsUpTo(LineSamples, MaxLines)
          /\ traceStream = NoStream
          /\ traceEvents = <<>>
          /\ stoppedAt = startedAt + RuleDurationMs
          /\ ruleInputs = [traceParsed |-> FALSE]
          /\ animations = <<>>
          /\ networkRequests = [s \in Calls |-> <<>>]
       \/ /\ stage = "events"
          /\ traceText = <<>>
          /\ traceStream = NoStream
          /\ traceEvents \in SeqsUpTo(TraceEventSamples, MaxTraceEvents)
          /\ stoppedAt \in {startedAt + 2000, startedAt + 10000}
          /\ ruleInputs = [traceParsed |-> FALSE]
          /\ animations = <<>>
          /\ networkRequests = [s \in Calls |-> <<>>]
       \/ /\ stage = "rules"
          /\ traceText = <<>>
          /\ traceStream = NoStream
          /\ traceEvents = <<>>
          /\ stoppedAt = startedAt + RuleDurationMs
          /\ ruleInputs \in RuleInputs
          /\ animations = <<>>
          /\ networkRequests = [s \in Calls |-> <<>>]
       \/ /\ stage = "animations"
          /\ traceText = <<>>
          /\ traceStream = NoStream
          /\ traceEvents = <<>>
          /\ stoppedAt = startedAt + RuleDurationMs
          /\ ruleInputs = [traceParsed |-> FALSE]
          /\ \E properties \in SeqsUpTo({<<"width">>, <<"Width">>, <<"margin", "-left">>,
                                         <<"color">>, <<"text-", "shadow">>,
                                         <<"transform">>, <<"opacity">>, <<"z-index">>},
                                        MaxProperties),
                name \in SeqsUpTo({"cc-", "blink-", "style", "fade", "Fade", "pulse",
                                   "spin"}, MaxNameTokens) :
                animations = <<[properties |-> properties, name |-> name,
                                bottleneckHint |-> "pending"]>>
          /\ networkRequests = [s \in Calls |-> <<>>]
       \/ /\ stage = "network"
          /\ traceText = <<>>
          /\ traceStream = NoStream
          /\ stoppedAt = startedAt + RuleDurationMs
          /\ ruleInputs = [traceParsed |-> FALSE]
          /\ animations = <<>>
          \* Resource events of two requests, timestamps in microseconds
          /\ traceEvents \in
                SeqsUpTo({[name |-> "ResourceSendRequest", requestId |-> 1, ts |-> 1000,
                           encodedDataLength |-> Undefined],
                          [name |-> "ResourceSendRequest", requestId |-> 2, ts |-> 2000,
                           encodedDataLength |-> Undefined],
                          [name |-> "ResourceFinish", requestId |-> 1, ts |-> 5000,
                           encodedDataLength |-> 100],
                          [name |-> "ResourceFinish", requestId |-> 1, ts |-> 8000,
                           encodedDataLength |-> Undefined],
                          [name |-> "ResourceFinish", requestId |-> 2, ts |-> 9000,
                           encodedDataLength |-> 300]}, MaxTraceEvents)
          \* the requests onRequestEnd pushed
          /\ \E ledger \in SeqsUpTo([transferSize : {Undefined, 200}, durationMs : {50}],
                                     MaxRequests) :
                networkRequests = [s \in Calls |-> IF s = 1 THEN ledger ELSE <<>>]

NextTrace ==
    \/ DecodeStrict
    \/ DecodeFallback
    \/ DecodeLine
    \/ DecodeReturn
    \/ ExtractEvent
    \/ ExtractDone
    \/ DeriveWebVitals
    \/ ParseTraceReport
    \/ FallbackReport
    \/ StopSuggestions
    \/ MapAnimations
    \/ EndCdpTrace
    \/ ReadTraceChunk
    \/ CloseTraceStream
    \/ NetworkSummary
    \/ FallbackNetworkSummary

TraceSpec == InitTrace /\ [][NextTrace]_vars

\* The browser answers every command it is sent: no Tracing.end, IO.read or
\* IO.close stays outstanding for ever.
TraceLiveSpec ==
    TraceSpec /\ WF_vars(EndCdpTrace) /\ WF_vars(ReadTraceChunk) /\ WF_vars(CloseTraceStream)

\* ------------------------------------------------------------ getLatestVideo
VideoGuardNever(path) == FALSE

\* getLatestVideo: if (!lastVideoPath) throw new Error("No video available.").
VideoGuard(path) == path = 0

\* The call up to its await: the guard, then fs.readFile(lastVideoPath) is
\* issued with the path read now.
GetLatestVideo ==
    /\ queries < MaxQueries
    /\ queries' = queries + 1
    /\ \/ /\ VideoGuard(lastVideoPath)
          /\ videoOut' = [ret |-> "NotAvailable", path |-> lastVideoPath]
          /\ UNCHANGED videoReads
       \/ /\ ~VideoGuard(lastVideoPath)
          /\ videoReads' = videoReads \cup {[id |-> queries + 1, path |-> lastVideoPath]}
          /\ UNCHANGED videoOut
    /\ UNCHANGED <<liveReads, liveOut, videoFound>>
    /\ UNCHANGED <<sessionVars, reportVars, pageVars, analysisVars>>

\* fs.readFile resolves with the bytes of the file, or rejects when the
\* file is not there.
VideoRead(r) ==
    /\ r \in videoReads
    /\ videoReads' = videoReads \ {r}
    /\ videoOut' = IF r.path # 0 /\ videoFile[r.path] = "exists"
                     THEN [ret |-> "video", path |-> r.path]
                     ELSE [ret |-> "error", path |-> r.path]
    /\ UNCHANGED <<queries, liveReads, liveOut, videoFound>>
    /\ UNCHANGED <<sessionVars, reportVars, pageVars, analysisVars>>

\* startRecording, stopRecording and getLatestVideo calls on the event loop.
NextVideo ==
    \/ \E c \in Calls, url \in Urls : StartCall(c, url)
    \/ \E c \in Calls : StartPrep(c)
    \/ \E c \in Calls : StartUnlink(c)
    \/ \E c \in Calls : StartLaunch(c)
    \/ \E c \in Calls : StartContext(c)
    \/ \E c \in Calls : StartInstrument(c)
    \/ \E c \in Calls : StartGoto(c)
    \/ \E c \in Calls : StartPublish(c)
    \/ \E c \in Calls : StopCall(c)
    \/ \E c \in Calls : StopDrainFps(c)
    \/ \E c \in Calls : StopSnapshot(c)
    \/ \E c \in Calls : StopTracingStop(c)
    \/ \E c \in Calls : StopTracingEnd(c)
    \/ \E c \in Calls : StopIoRead(c)
    \/ \E c \in Calls : StopIoClose(c)
    \/ \E c \in Calls : StopCloseContext(c)
    \/ \E c \in Calls : StopCloseBrowser(c)
    \/ \E c \in Calls : StopRethrow(c)
    \/ \E c \in Calls : StopSelectVideo(c)
    \/ \E c \in Calls : StopReport(c)
    \/ \E c \in Calls : StopUnlinkTrace(c)
    \/ GetLatestVideo
    \/ \E r \in [id : 1..MaxQueries, path : 0..MaxCalls] : VideoRead(r)

VideoSpec == Init /\ [][NextVideo]_vars

\* ------------------------------------------------------------ getLiveMetrics
\* getLiveMetrics: if (!session) return null.
LiveGuard(session) == session = NoSession

LastSampleAtReturn(r) == Len(samples[r.sid])

\* const last = session.samples[session.samples.length - 1], read before
\* the await: the index of the sample a pending call holds.
LastSample(r) == r.last

\* The call up to its await: session = activeSession, the guard, the last
\* sample, then session.page.evaluate is issued.
GetLiveMetrics ==
    /\ queries < MaxQueries
    /\ queries' = queries + 1
    /\ \/ /\ LiveGuard(activeSession)
          /\ liveOut' = [ret |-> "null", fps |-> "null", sid |-> 0, last |-> 0]
          /\ UNCHANGED liveReads
       \/ /\ ~LiveGuard(activeSession)
          /\ liveReads' = liveReads \cup
                {[id |-> queries + 1, sid |-> activeSession.sid,
                  page |-> activeSession.page,
                  last |-> Len(samples[activeSession.sid])]}
          /\ UNCHANGED liveOut
    /\ UNCHANGED <<videoReads, videoOut, videoFound>>
    /\ UNCHANGED <<sessionVars, reportVars, pageVars, analysisVars>>

\* session.page.evaluate resolves with the frame rate, or with null when
\* the page has no collector, or rejects (the catch leaves fps null); the
\* metrics are returned.
LiveRead(r) ==
    /\ r \in liveReads
    /\ liveReads' = liveReads \ {r}
    /\ \E f \in {"value", "null"} :
          /\ f = "value" => PageAlive(r.page)
          /\ liveOut' = [ret |-> "metrics", fps |-> f, sid |-> r.sid, last |-> LastSample(r)]
    /\ UNCHANGED <<queries, videoReads, videoOut, videoFound>>
    /\ UNCHANGED <<sessionVars, reportVars, pageVars, analysisVars>>

\* startRecording, stopRecording up to its first await (the claim of the
\* session), the metrics loop, the page handlers and getLiveMetrics calls
\* on the event loop.  What stopRecording does after the claim reaches a
\* pending getLiveMetrics call only by closing the browser: its evaluate
\* then rejects, which LiveRead allows at any time.  No stop gets as far as
\* setting lastVideoPath here, so startRecording has no video to unlink.
NextLive ==
    \/ \E c \in Calls, url \in Urls : StartCall(c, url)
    \/ \E c \in Calls : StartPrep(c)
    \/ \E c \in Calls : StartLaunch(c)
    \/ \E c \in Calls : StartContext(c)
    \/ \E c \in Calls : StartInstrument(c)
    \/ \E c \in Calls : StartGoto(c)
    \/ \E c \in Calls : StartPublish(c)
    \/ \E c \in Calls : StopCall(c)
    \/ \E s \in Calls : SampleFire(s)
    \/ \E s \in Calls, i \in 1..MaxInFlight : SampleMetrics(s, i)
    \/ \E s \in Calls, i \in 1..MaxInFlight : SampleEvaluate(s, i)
    \/ \E s \in Calls : NewTab(s)
    \/ \E s \in Calls, p \in 1..MaxTabs : TabInstalled(s, p)
    \/ \E s \in Calls, p \in 1..MaxTabs : TabLinked(s, p)
    \/ GetLiveMetrics
    \/ \E r \in [id : 1..MaxQueries, sid : Calls, page : Calls \X (1..MaxTabs), last : 0..MaxEvents] : LiveRead(r)

LiveSpec == Init /\ [][NextLive]_vars

\* ----------------------------------------------------------------- claims
NoStopIssued == \A c \in Calls : kind[c] # "stop"

Launched == {c \in Calls : kind[c] = "start" /\ browser[c] # "none"}

Recording == {c \in Calls : kind[c] = "start" /\ result[c] = "recording"}

\* Call c is issued in this step.
IssuedNow(c, k) == pc[c] = "idle" /\ kind'[c] = k

\* The step leaves the session slot, the video reference, every browser and
\* every session's timers, handlers and sequences as they were.
SessionStateUnchanged ==
    UNCHANGED <<activeSession, lastVideoPath, browser, context, tabs, videoFile,
                recordingStartSet, animHandler, ctxHandlers, intervals, samples, fpsSamples,
                screenshots, networkRequests, collectedAnimations>>

\* C1: as long as no StopSession has been issued, overlapping StartSession
\* calls launch at most one browser and at most one of them returns
\* "recording".
MutualExclusionOfStart ==
    NoStopIssued => Cardinality(Launched) <= 1 /\ Cardinality(Recording) <= 1

\* C2: a session is claimed by at most one StopSession call, a stop call
\* that did not claim a session has failed with NoActiveSession, and a
\* claimed session is no longer in the slot (guard and clearing are one
\* atomic stretch).
ConcurrentStopClaimsOnce ==
    /\ \A s \in Calls : Cardinality({d \in Calls : ClaimedBy(d, s)}) <= 1
    /\ \A d \in Calls : kind[d] = "stop" =>
          IF claimed[d] = NoSession
            THEN pc[d] = "done" /\ result[d] = "NoActiveSession" /\ reportKind[d] = "none"
            ELSE result[d] # "NoActiveSession" /\ activeSession.sid # claimed[d].sid

\* C2 witness: a second stop has failed with NoActiveSession while the
\* first, which claimed the session, is still in its pipeline.
ConcurrentStopWitness ==
    \E d1, d2 \in Calls :
        /\ d1 < d2
        /\ kind[d1] = "stop" /\ claimed[d1] # NoSession /\ pc[d1] = "report"
        /\ kind[d2] = "stop" /\ result[d2] = "NoActiveSession"

\* C3: a StopSession call that claimed a session and has ended returned a
\* report.
StopAlwaysReturnsReport ==
    \A d \in Calls :
        kind[d] = "stop" /\ claimed[d] # NoSession /\ pc[d] = "done" => result[d] = "report"

\* C4: once a StopSession call that claimed a session is past its drain
\* steps (it rethrows, builds the report or has ended), closing the context
\* and the browser have both been attempted; an error it ends with comes
\* from a drain step or the trace-file unlink, never from a close call.
TeardownAlwaysExecutes ==
    \A d \in Calls :
        kind[d] = "stop" /\ claimed[d] # NoSession =>
            /\ pc[d] \in {"rethrow", "video", "report", "unlinkTrace", "done"}
                  => closeTried[d] = {"context", "browser"}
            /\ pc[d] = "done" /\ result[d] = "error" => failure[d] # "none"

\* C4 witness: a stop whose drain failed has ended with its close calls
\* attempted and the browser closed.
TeardownWitness ==
    \E d \in Calls :
        /\ kind[d] = "stop" /\ pc[d] = "done" /\ failure[d] = "drain"
        /\ closeTried[d] = {"context", "browser"}
        /\ browser[claimed[d].sid] = "closed"

\* C5: once a session is claimed by StopSession, its samples and
\* screenshots no longer change.
NoAppendAfterStop ==
    [][\A s \in Calls : Claimed(s) =>
          samples'[s] = samples[s] /\ screenshots'[s] = screenshots[s]]_vars

\* C6: once a session is claimed by StopSession, its collectedAnimations
\* and networkRequests no longer change and its tab handlers no longer
\* change the session slot.
HandlersDetachedAfterStop ==
    [][\A s \in Calls : Claimed(s) =>
          /\ collectedAnimations'[s] = collectedAnimations[s]
          /\ networkRequests'[s] = networkRequests[s]
          /\ tabLinking'[s] # tabLinking[s] => activeSession' = activeSession]_vars

\* C7: a StartSession issued while a StopSession was draining a session has
\* neither launched a browser nor become the active session while that
\* session's teardown has not been carried out.
NoStartBeforeTeardown ==
    \A c \in Calls : \A s \in issuedWhileDraining[c] :
        (browser[c] # "none" \/ activeSession.sid = c) => ~Draining(s)

\* C8: a StartSession issued after one has returned "recording" and before
\* any StopSession fails with AlreadyRecording and changes neither the
\* session, nor any browser, nor the session's sequences.
StartWhileRecordingRejected ==
    [][\A c \in Calls :
          IssuedNow(c, "start") /\ Recording # {} /\ NoStopIssued =>
              /\ pc'[c] = "done" /\ result'[c] = "AlreadyRecording"
              /\ SessionStateUnchanged]_vars

\* C8 witness: with a recording session and no stop issued, a further
\* start has failed with AlreadyRecording without a browser.
StartWhileRecordingWitness ==
    \E c0, c \in Calls :
        /\ c0 < c /\ NoStopIssued
        /\ result[c0] = "recording"
        /\ kind[c] = "start" /\ result[c] = "AlreadyRecording" /\ browser[c] = "none"

\* C9: a StopSession issued while the slot is empty fails with
\* NoActiveSession and changes no state.
StopWithoutSessionRejected ==
    [][\A d \in Calls :
          IssuedNow(d, "stop") /\ activeSession = NoSession =>
              /\ pc'[d] = "done" /\ result'[d] = "NoActiveSession"
              /\ claimed'[d] = NoSession
              /\ SessionStateUnchanged]_vars

\* C9 witness: after a stop that claimed the session and set the video
\* reference, a later stop has failed with NoActiveSession.
StopWithoutSessionWitness ==
    \E d1, d2 \in Calls :
        /\ d1 < d2
        /\ kind[d1] = "stop" /\ claimed[d1] # NoSession
        /\ kind[d2] = "stop" /\ result[d2] = "NoActiveSession"
        /\ lastVideoPath # 0

\* C10 as stated: in every session state a StartSession whose URL is not an
\* http(s) URL fails with InvalidInput and changes no state.
InvalidUrlAlwaysInvalidInput ==
    [][\A c \in Calls :
          IssuedNow(c, "start") /\ ~argHttp'[c] =>
              /\ pc'[c] = "done" /\ result'[c] = "InvalidInput"
              /\ SessionStateUnchanged]_vars

\* C10 amended: a StartSession whose URL is not an http(s) URL fails at
\* once and changes no state; it fails with InvalidInput when the slot is
\* empty and with AlreadyRecording when a session is active, because the
\* active-session guard runs before the URL validation.
InvalidUrlRejected ==
    [][\A c \in Calls :
          IssuedNow(c, "start") /\ ~argHttp'[c] =>
              /\ pc'[c] = "done"
              /\ result'[c] = IF activeSession = NoSession
                                THEN "InvalidInput" ELSE "AlreadyRecording"
              /\ SessionStateUnchanged]_vars

\* C10 witness: a start with a bad URL has failed with InvalidInput while
\* the video of the previous session is still referenced and on disk.
InvalidUrlWitness ==
    \E c \in Calls :
        /\ kind[c] = "start" /\ ~argHttp[c] /\ result[c] = "InvalidInput"
        /\ lastVideoPath # 0 /\ videoFile[lastVideoPath] = "exists"

\* C11: in every state of a session at most 12 screenshots have been
\* captured, also when screenshot callbacks overlap.
AtMostTwelveScreenshots ==
    \A s \in Calls : Len(screenshots[s]) <= MaxScreenshots

\* C12: the durationMs of a report, whether parseTrace or
\* buildFallbackReport built it, is the stop timestamp minus the start
\* timestamp, whatever the span of the trace events is.
DurationIsWallClock ==
    stage \in {"built", "normalized"} => report.durationMs = stoppedAt - startedAt

\* C12 witness: parseTrace took the series from a trace whose span (9 s)
\* is not the wall-clock duration (10 s).
DurationWitness ==
    /\ stage = "normalized" /\ report.source = "trace"
    /\ traceDurationMs(rawTraceSpan) > 0
    /\ traceDurationMs(rawTraceSpan) # stoppedAt - startedAt
    /\ report.durationMs = 10000

\* C13: in a returned report the series has timeSec non-decreasing along
\* the sequence and every point within 0 and durationSec, whatever the
\* times of the input points are.
SeriesSortedAndInRange ==
    stage = "normalized" =>
        /\ \A i \in DOMAIN report.points :
              /\ 0 <= report.points[i].timeSec
              /\ report.points[i].timeSec <= DurationSec(report.durationMs)
        /\ \A i \in 1..(Len(report.points) - 1) :
              report.points[i].timeSec <= report.points[i + 1].timeSec

\* C13 witness: a returned series built from fallback points that were out
\* of order, one of them stamped after the stop timestamp.
SeriesSortedWitness ==
    /\ stage = "normalized" /\ report.source = "fallback"
    /\ Len(fallback) >= 2 /\ fallback[1].timeSec > fallback[2].timeSec
    /\ fallback[1].timeSec > DurationSec(report.durationMs)
    /\ fallback[1].value # Undefined /\ fallback[2].value # Undefined
    /\ Len(report.points) >= 3

\* The series as extendSeriesToFullDuration receives it in this step.
RealPoints == NormalizedPoints(report.points, DurationSec(report.durationMs))

Normalizing == stage = "frames" /\ stage' = "normalized" /\ RealPoints # <<>>

\* The points in front of the real ones (one, at 0, when the first real
\* sample is more than 0.5 s in) carry the first real value, the points
\* behind them carry the last real value, and the real points are kept.
ExtensionCarriesValues ==
    LET ext == report'.points
        n == Len(RealPoints)
        k == IF MinTime(RealPoints) > TimeUnit \div 2 THEN 1 ELSE 0
    IN /\ Len(ext) >= k + n
       /\ SubSeq(ext, k + 1, k + n) = RealPoints
       /\ k = 1 => ext[1] = Point(0, RealPoints[1].value)
       /\ \A i \in (k + n + 1)..Len(ext) : ext[i].value = RealPoints[n].value

\* C14 as stated: after extension a non-empty series begins at 0 whenever
\* its first real sample was more than 0.5 s in, its last point is at
\* durationSec, and the added points carry the first or the last real value.
ExtensionEndsAtDuration ==
    [][Normalizing =>
          /\ ExtensionCarriesValues
          /\ report'.points[Len(report'.points)].timeSec
                = DurationSec(report.durationMs)]_vars

\* C14 amended: the series ends at durationSec when its last real sample
\* was more than 0.5 s before the end; otherwise nothing is added behind
\* and it ends at its last real sample, less than 0.5 s before the end.
ExtensionEndsNearDuration ==
    [][Normalizing =>
          /\ ExtensionCarriesValues
          /\ report'.points[Len(report'.points)].timeSec =
                IF MaxTime(RealPoints) >= DurationSec(report.durationMs) - TimeUnit \div 2
                  THEN MaxTime(RealPoints)
                  ELSE DurationSec(report.durationMs)]_vars

\* C14 witness: a returned series of a 10 s session that was extended back
\* to 0 and ends at its last real sample, at 9.7 s.
ExtensionWitness ==
    /\ stage = "normalized" /\ report.durationMs = 10000
    /\ Len(report.points) >= 3
    /\ report.points[1].timeSec = 0
    /\ report.points[Len(report.points)].timeSec = Tenths(97)

\* The trace-derived frame-rate buckets cover less than half the wall-clock
\* duration.
LowFpsCoverage ==
    /\ metric = "fps" /\ report.builder = "parseTrace"
    /\ TimeSpan(mapToSeries(traceBucket)) * 2
          < wallClockDurationSec(stoppedAt - startedAt)

\* With frame-rate buckets covering less than half the session, parseTrace
\* takes the fps series from the in-page samples.
LowCoverageFallsBack ==
    /\ stage \in {"built", "normalized"} /\ LowFpsCoverage => report.source = "fallback"
    /\ stage = "built" /\ LowFpsCoverage => report.points = capFps(fallback)

TraceSeries ==
    IF metric \in {"fps", "cpu", "gpu"} THEN mapToSeries(traceBucket) ELSE tracePoints

\* C16: for each metric, parseTrace selects the trace-derived series only if
\* the trace yields more than 2 buckets or points for the metric, their time
\* span reaches half the wall-clock duration, and the span of the whole
\* trace is not out of proportion to the wall-clock duration.
TraceSelectedOnlyIfCovering ==
    stage = "built" /\ report.builder = "parseTrace" /\ report.source = "trace" =>
        /\ Len(TraceSeries) > 2
        /\ TimeSpan(TraceSeries) * 2 >= wallClockDurationSec(stoppedAt - startedAt)
        /\ ~traceSpanTooLarge(stoppedAt - startedAt, rawTraceSpan)

\* C17: when a trace-derived frame-rate bucket holds more than 200,
\* parseTrace takes the fps series from the in-page samples, whatever the
\* number of buckets and their span.
FrameCapForcesFallback ==
    /\ metric = "fps" /\ report.builder = "parseTrace"
    /\ MaxValue(mapToSeries(traceBucket)) > 200
    => /\ report.source = "fallback"
       /\ stage = "built" => report.points = capFps(fallback)

\* C17 witness: three frame-rate buckets spanning 9 s of a 10 s session, one
\* of them at 250, in a trace that is otherwise used; the fps series is the
\* in-page one.
FrameCapWitness ==
    /\ stage = "built" /\ metric = "fps" /\ report.builder = "parseTrace"
    /\ stoppedAt - startedAt = 10000
    /\ useTraceForSeries(10000, rawTraceSpan)
    /\ DOMAIN traceBucket = {0, 3, 9}
    /\ traceBucket[3] = 250 /\ traceBucket[0] = 60 /\ traceBucket[9] = 60
    /\ fallback # <<>>
    /\ report.source = "fallback" /\ report.points = capFps(fallback)

\* C18: when parseTrace rejects the trace for a metric, the series it
\* selects is the fallback series, its times and values as sampled.
RejectedTraceUsesFallbackUnmodified ==
    stage = "built" /\ report.builder = "parseTrace" /\ report.source # "trace" =>
        report.points = FallbackSeries(metric, fallback)

\* A stop call has gone through selectBestVideoPath.
PastVideoSelection(d) ==
    /\ kind[d] = "stop" /\ claimed[d] # NoSession /\ failure[d] # "drain"
    /\ pc[d] \in {"report", "unlinkTrace", "done"}

\* Stop d found the video of its session.
FoundVideo(d) == PastVideoSelection(d) /\ videoFound[d]

LiveMetricsSnapshot ==
    [][/\ queries' = queries + 1 =>
             IF activeSession = NoSession
               THEN liveOut'.ret = "null" /\ liveReads' = liveReads
               ELSE liveOut' = liveOut
                    /\ \E r \in liveReads' \ liveReads :
                          /\ r.sid = activeSession.sid
                          /\ r.page = activeSession.page
                          /\ r.last = Len(samples[activeSession.sid])
       /\ \A r \in liveReads \ liveReads' :
             /\ liveOut'.ret = "metrics"
             /\ liveOut'.sid = r.sid /\ liveOut'.last = r.last
             /\ liveOut'.fps = "value" => PageAlive(r.page)]_vars

\* C20 witness: a call made while session s was active has returned
\* metrics with fps null after StopSession claimed s, with the values of
\* the sample that was last at the call; another sample came in meanwhile.
LiveMetricsWitness ==
    /\ liveOut.ret = "metrics" /\ liveOut.fps = "null"
    /\ liveOut.last >= 1
    /\ Len(samples[liveOut.sid]) > liveOut.last
    /\ Claimed(liveOut.sid)

\* Every updateActivePage call of session s has run to its end.
TabsSettled(s) ==
    /\ tabs[s] > 1
    /\ tabInstalling[s] = {} /\ tabLinking[s] = {}
    /\ Len(linkOrder[s]) = tabs[s] - 1

\* C21: once the handlers of all tabs opened mid-session have run to their
\* end, the active page and the metrics link of the session are those of
\* the tab opened last, and the collectors are registered on every tab.
ActivePageIsNewestTab ==
    \A s \in Calls :
        activeSession # NoSession /\ activeSession.sid = s /\ TabsSettled(s) =>
            /\ activeSession.page = <<s, tabs[s]>>
            /\ activeSession.metricsCdp = <<s, tabs[s]>>
            /\ \A p \in 1..tabs[s] : initScripts[s][p]

\* Stop d has pulled the in-page frame-rate samples.
FpsPulled(d) ==
    /\ kind[d] = "stop" /\ claimed[d] # NoSession /\ pc[d] = "snapshot"
    /\ fpsSamples[claimed[d].sid] # <<>>

\* C22: a frame-rate sample captured on the active page before the session
\* switched to another tab is among the samples stop has drained.
SwitchKeepsFrameSamples ==
    \A d \in Calls : FpsPulled(d) =>
        \A x \in captured[claimed[d].sid] :
            x.active /\ x.page # claimed[d].page[2] =>
                \E i \in 1..Len(fpsSamples[claimed[d].sid]) :
                    fpsSamples[claimed[d].sid][i] = x

\* C29: a document that an instrumented page created after its init
\* scripts were registered (a navigation after instrumentation) holds the
\* observer and sampler collectors and a running frame counter.
CollectorsSurviveNavigation ==
    \A s \in Calls : \A p \in 1..tabs[s] :
        PageAlive(<<s, p>>) /\ initScripts[s][p] /\ doc[s][p].collector =>
            doc[s][p].fps

\* The counter range a sample's delta counts: (from, to] of its link's
\* TaskDuration, empty when the delta is 0.
Counted(s, k) ==
    IF k > 1 /\ samples[s][k].cpuBusyMs > 0
      THEN (samples[s][k - 1].totals + 1)..samples[s][k].totals
      ELSE {}

\* C30: the first PerfSample has delta 0, every later one has the delta
\* max(0, its reading - the reading of the sample before it) in ms, none is
\* negative, and no two samples of a link count the same counter increment.
DeltasCountEachIncrementOnce ==
    \A s \in Calls :
        /\ Len(samples[s]) >= 1 => samples[s][1].cpuBusyMs = 0
        /\ \A k \in 2..Len(samples[s]) :
              /\ samples[s][k].cpuBusyMs >= 0
              /\ samples[s][k].cpuBusyMs =
                    Max2(0, (samples[s][k].totals - samples[s][k - 1].totals) * 1000)
        /\ \A j, k \in 1..Len(samples[s]) :
              j < k /\ samples[s][j].link = samples[s][k].link =>
                  Counted(s, j) \cap Counted(s, k) = {}

NextEvent == traceEvents[cursor + 1]

TraceSpanNow == RawTraceSpan(traceEvents)

WallMsNow == stoppedAt - startedAt

\* Seconds (in 1/TimeUnit) of an offset in a trace of the given span: by
\* 1,000,000 when the span exceeds 1,000,000 units, by 1,000 otherwise,
\* clamped into the session.
SecondsByUnit(delta, raw, wallMs) ==
    Max2(0, Min2(wallMs * (TimeUnit \div 1000),
                 IF raw > 1000000 THEN delta \div (1000000 \div TimeUnit)
                                  ELSE delta * (TimeUnit \div 1000)))

SpanTooLarge(raw, wallMs) ==
    LET ms == IF raw > 1000000 THEN raw \div 1000 ELSE raw
    IN  ms > wallMs * 10 /\ ms > 60000

LongTaskIffCompleteRunTask ==
    [][cursor' = cursor + 1 =>
          IF NextEvent.ph = "X" /\ NextEvent.name = "RunTask" /\ NextEvent.dur > 50000
            THEN /\ Len(longTasks') = Len(longTasks) + 1
                 /\ longTasks'[Len(longTasks')].name = "RunTask"
                 /\ longTasks'[Len(longTasks')].durationMs * 1000 = NextEvent.dur
            ELSE longTasks' = longTasks]_vars

\* Sum of max(0, d - 50) over the durations at the given positions.
RECURSIVE BlockingSum(_, _)
BlockingSum(durations, positions) ==
    IF positions = {} THEN 0
    ELSE LET i == CHOOSE j \in positions : TRUE
         IN  (IF durations[i] > 50 THEN durations[i] - 50 ELSE 0)
             + BlockingSum(durations, positions \ {i})

LowFrameRate(fps) == SumValues(fps) > 0 /\ SumValues(fps) < 50 * Max2(1, Len(fps))
HighLayoutCost(in) == in.layoutCount > 100 \/ in.layoutTimeMs * 100 > RuleDurationMs * 15
MemoryGrowth(in) ==
    /\ Len(in.memoryPoints) >= 2
    /\ in.memoryPoints[Len(in.memoryPoints)] * 10 > in.memoryPoints[1] * 12
HighCpuLoad(in) == in.totalCpu * 10 > RuleDurationMs * 7

\* Titles in report.suggestions.
Suggested == {suggestions[i] : i \in DOMAIN suggestions}

\* The rules of the report: title and condition.
RuleSet ==
    {<<"Low frame rate", LowFrameRate(ruleInputs.fps)>>,
     <<"Long tasks detected", ruleInputs.longTaskCount > 10>>,
     <<"High layout cost", HighLayoutCost(ruleInputs)>>,
     <<"Frequent repaints", ruleInputs.paintCount > 150>>,
     <<"Layout-triggering animations", ruleInputs.layoutAnimations > 0>>,
     <<"Memory growth", MemoryGrowth(ruleInputs)>>,
     <<"Layout shifts detected", ruleInputs.cls > 10>>,
     <<"High total blocking time", ruleInputs.tbtMs > 300>>}

\* C27: a finished report whose average FPS is below 50 with a non-zero
\* sample, and in which no other rule's condition holds, carries exactly the
\* low-frame-rate suggestion; every rule's suggestion is in the report
\* exactly when the rule's own condition holds.
EachRuleFiresOnItsCondition ==
    stage = "suggested" =>
        /\ (/\ LowFrameRate(ruleInputs.fps)
            /\ \A r \in RuleSet : r[1] # "Low frame rate" => ~r[2]
            /\ ~HighCpuLoad(ruleInputs))
              => suggestions = <<"Low frame rate">>
        /\ \A r \in RuleSet : (r[1] \in Suggested) <=> r[2]

\* The events one line yields under the accepted shapes: an array, an object
\* with an event list under traceEvents or events, a wrapped single event,
\* or a bare event; nothing for any other line.
Yield(line) ==
    CASE ~line.json \/ ~line.object -> <<>>
      [] line.isArray -> line.items
      [] ~line.isArray /\ "traceEvents" \in line.keys -> line.traceEvents
      [] ~line.isArray /\ line.keys \cap {"traceEvents", "events"} = {"events"} -> line.events
      [] ~line.isArray /\ line.keys \cap {"traceEvents", "events", "event"} = {"event"} -> line.event
      [] OTHER -> IF line.named THEN line.event ELSE <<>>

\* The events of the lines up to the n-th, in line order.
RECURSIVE YieldUpTo(_, _)
YieldUpTo(text, n) ==
    IF n = 0 THEN <<>> ELSE YieldUpTo(text, n - 1) \o Yield(text[n])

\* C28: the decoder always comes to return a list of events; after the
\* fallback the list is the events of the lines of an accepted shape in line
\* order, every other line skipped, and so empty when no line yields one;
\* after a strict parse without events it is empty.
DecoderNeverFails ==
    /\ stage \in {"payload", "lines"} => ENABLED NextTrace
    /\ stage = "lines" => traceEvents = YieldUpTo(traceText, lineCursor)
    /\ stage = "decoded" =>
          /\ traceEvents \in Seq({"a", "b", "c", "d"})
          /\ lineCursor = Len(traceText) /\ StrictThrows(traceText)
                => traceEvents = YieldUpTo(traceText, Len(traceText))
          /\ (\A i \in DOMAIN traceText : Yield(traceText[i]) = <<>>) => traceEvents = <<>>

\* C28 witness: the fallback has returned the events of the first and the
\* third line, in that order, with the malformed second line skipped.
DecoderSkipsMalformedLine ==
    /\ stage = "decoded"
    /\ traceText = <<Line(TRUE, TRUE, FALSE, <<>>, {"event"}, <<>>, <<>>, <<"c">>, FALSE),
                     Line(FALSE, FALSE, FALSE, <<>>, {}, <<>>, <<>>, <<>>, FALSE),
                     Line(TRUE, TRUE, TRUE, <<"a", "b">>, {}, <<>>, <<>>, <<>>, FALSE)>>
    /\ traceEvents = <<"c", "a", "b">>

\* The events processed so far that add to the CPU-busy bucket.
BusyEvents ==
    {i \in 1..cursor : /\ traceEvents[i].ph = "X" /\ traceEvents[i].dur > 0
                       /\ traceEvents[i].cat = "toplevel" \/ traceEvents[i].name = "RunTask"}

\* Sum of dur / 1000 over the events at the given positions.
RECURSIVE BusyMs(_)
BusyMs(positions) ==
    IF positions = {} THEN 0
    ELSE LET i == CHOOSE j \in positions : TRUE
         IN  traceEvents[i].dur \div 1000 + BusyMs(positions \ {i})

\* floor((ts - startTs) / unitDivisor) of the i-th event.
SecondByDivisor(i) ==
    (traceEvents[i].ts - StartTs(traceEvents))
        \div (IF TraceSpanNow > 1000000 THEN 1000000 ELSE 1000)

\* The second of the i-th event: by the divisor and clamped into the
\* session, or proportional to the wall clock when the span is too large.
SecondInSession(i) ==
    IF SpanTooLarge(TraceSpanNow, WallMsNow)
      THEN ((((traceEvents[i].ts - StartTs(traceEvents)) \div (TraceSpanNow \div RatioSteps))
               * WallMsNow) \div RatioSteps) \div 1000
      ELSE Max2(0, Min2(WallMsNow \div 1000, SecondByDivisor(i)))

SamplingBeginsBeforeNavigation ==
    \A c \in Calls :
        /\ (kind[c] = "start" /\ pc[c] = "goto") =>
              /\ context[c] = "open"
              /\ recordingStartSet[c]
              /\ intervals[c]
        /\ (activeSession # NoSession /\ activeSession.sid = c) =>
              /\ pc[c] = "done" /\ result[c] = "recording"
              /\ recordingStartSet[c] /\ ctxHandlers[c]

\* C33: the finished report carries the memory-growth suggestion, once, when
\* its memory series ends more than 20% above its first value, and does not
\* carry it otherwise, whichever source the series was taken from.
MemoryGrowthFollowsSeries ==
    (stage = "normalized" /\ metric = "memory") =>
        LET grows == /\ Len(report.points) >= 2
                     /\ report.points[Len(report.points)].value * 10
                          > report.points[1].value * 12
        IN  Cardinality({i \in DOMAIN suggestions : suggestions[i] = "Memory growth"})
              = IF grows THEN 1 ELSE 0

\* C34 helpers: the class of a property of the samples, and the hint the
\* name heuristics give.
LayoutProperty(p) == p \in {<<"width">>, <<"Width">>, <<"margin", "-left">>}

PaintProperty(p) == p \in {<<"color">>, <<"text-", "shadow">>}

CompositorProperty(p) == p \in {<<"transform">>, <<"opacity">>}

NameHint(name) ==
    LET has(words) == \E i \in DOMAIN name : name[i] \in words
    IN  IF name # <<>> /\ name[1] = "cc-" THEN "compositor"
        ELSE IF (name # <<>> /\ name[1] = "blink-") \/ has({"style"}) THEN "layout"
        ELSE IF has({"fade", "Fade", "pulse"}) THEN "compositor"
        ELSE "undefined"

PropertyHint(properties) ==
    IF \E i \in DOMAIN properties : LayoutProperty(properties[i]) THEN "layout"
    ELSE IF \E i \in DOMAIN properties : PaintProperty(properties[i]) THEN "paint"
    ELSE IF \E i \in DOMAIN properties : CompositorProperty(properties[i]) THEN "compositor"
    ELSE "undefined"

\* C34: a layout-triggering property gives layout, otherwise a
\* paint-triggering one gives paint, otherwise transform/opacity gives
\* compositor; the name heuristics are consulted only when property data is
\* absent; otherwise the animation is unclassified.
NameConsultedOnlyWithoutProperties ==
    stage = "mapped" =>
        \A i \in DOMAIN animations :
            animations[i].bottleneckHint =
                IF PropertyHint(animations[i].properties) # "undefined"
                  THEN PropertyHint(animations[i].properties)
                  ELSE IF animations[i].properties = <<>>
                    THEN NameHint(animations[i].name)
                    ELSE "undefined"

\* C34 amended: the property classes are tried in the order layout, paint,
\* compositor; when no property is of one of the three classes (none given,
\* or only others) the name heuristics decide; otherwise the animation is
\* unclassified.
NameConsultedWhenNoPropertyMatches ==
    stage = "mapped" =>
        \A i \in DOMAIN animations :
            animations[i].bottleneckHint =
                IF PropertyHint(animations[i].properties) # "undefined"
                  THEN PropertyHint(animations[i].properties)
                  ELSE NameHint(animations[i].name)

\* C34 witness: an animation of an unclassed property and a cc- name has been
\* classified by its name.
NameAfterUnmatchedProperty ==
    /\ stage = "mapped"
    /\ \E i \in DOMAIN animations :
          /\ animations[i].properties = << <<"z-index">> >>
          /\ animations[i].name = <<"cc-", "spin">>
          /\ animations[i].bottleneckHint = "compositor"

\* C35 helpers.  The series parseTrace or buildFallbackReport gave the report
\* of this run, as buildSpikeFrames receives it.
BuiltPoints ==
    IF report.builder = "parseTrace"
      THEN parseTraceSeries(metric, wallClockDurationMs(startedAt, stoppedAt), rawTraceSpan,
                            traceBucket, tracePoints, fallback).points
      ELSE FallbackSeries(metric, fallback)

\* The points of a series among its 5 lowest values: fewer than 5 points
\* are strictly lower.
WorstIndexes(pts) ==
    {j \in DOMAIN pts :
        Cardinality({k \in DOMAIN pts : pts[k].value < pts[j].value}) < SpikeLimit}

\* The files of the screenshots nearest to a time.
Nearest(t) ==
    LET shots == screenshots[1]
        diff(i) == IF shots[i].timeSec >= t THEN shots[i].timeSec - t ELSE t - shots[i].timeSec
    IN  {shots[i].path : i \in {i \in DOMAIN shots : \A j \in DOMAIN shots : diff(i) <= diff(j)}}

\* The time normalizeReportTimeRange leaves a spike frame of time t.
FrameTime(t) ==
    LET durationSec == DurationSec(report.durationMs)
    IN  Max2(0, Min2(durationSec, IF t * 2 > durationSec * 3 THEN t \div 1000 ELSE t))

\* Every frame is the frame of a point among the worst of pts, and no
\* more frames are alike than there are such points.
FramesOfWorst(pts, normalized) ==
    \A i \in DOMAIN spikeFrames :
        LET same == {k \in DOMAIN spikeFrames : spikeFrames[k] = spikeFrames[i]}
            from == {j \in WorstIndexes(pts) :
                        /\ spikeFrames[i].timeSec =
                              IF normalized THEN FrameTime(pts[j].timeSec) ELSE pts[j].timeSec
                        /\ spikeFrames[i].fps = pts[j].value
                        /\ spikeFrames[i].image \in Nearest(pts[j].timeSec)}
        IN  Cardinality(same) <= Cardinality(from)

\* C35: the returned report has at most 5 spike frames; each carries the
\* timestamp and value of a distinct point among the 5 lowest-value points
\* of the report's frame-rate series and the image of the screenshot nearest
\* to that point; with no screenshots or no frame-rate points the list is
\* empty.
SpikeFramesOfReportSeries ==
    (stage = "normalized" /\ metric = "fps") =>
        /\ Len(spikeFrames) <= SpikeLimit
        /\ FramesOfWorst(report.points, FALSE)
        /\ (screenshots[1] = <<>> \/ report.points = <<>>) => spikeFrames = <<>>

\* C35 amended: the spike frames are taken from the frame-rate series as
\* built, before normalisation: at most 5, each of a distinct point among the
\* 5 lowest values of that series, with the image of the screenshot nearest
\* to the point's time as built; in the returned report a frame carries the
\* point's value and the point's time brought into the session (divided by
\* 1000 when past 1.5 durations, clamped into [0, durationSec]); with no
\* screenshots or no points the list is empty.
SpikeFramesOfBuiltSeries ==
    /\ (stage = "frames" /\ metric = "fps") =>
          /\ Len(spikeFrames) <= SpikeLimit
          /\ FramesOfWorst(report.points, FALSE)
          /\ (screenshots[1] = <<>> \/ report.points = <<>>) => spikeFrames = <<>>
    /\ (stage = "normalized" /\ metric = "fps") =>
          /\ Len(spikeFrames) <= SpikeLimit
          /\ FramesOfWorst(BuiltPoints, TRUE)
          /\ (screenshots[1] = <<>> \/ BuiltPoints = <<>>) => spikeFrames = <<>>
          /\ \A i \in DOMAIN spikeFrames :
                spikeFrames[i].timeSec \in 0..DurationSec(report.durationMs)

\* C35 witness: a series of six points gave five frames, the highest point
\* left out, with the images of two screenshots.
FiveSpikeFrames ==
    /\ stage = "normalized" /\ metric = "fps"
    /\ Len(BuiltPoints) = SpikeLimit + 1
    /\ Len(spikeFrames) = SpikeLimit
    /\ \A i \in DOMAIN spikeFrames : spikeFrames[i].fps < 60
    /\ {spikeFrames[i].image : i \in DOMAIN spikeFrames} = {1, 2}

\* C36 helpers.  A behaviour that reads a trace stream; the stream is being
\* read; the first chunk that carries eof; the data of the first n chunks.
HasStream == traceStream.chunks # <<>>

StreamPending == stage \in {"tracingEnd", "ioRead", "ioClose"}

FirstEof ==
    CHOOSE n \in DOMAIN traceStream.chunks :
        /\ traceStream.chunks[n].eof
        /\ \A k \in 1..(n - 1) : ~traceStream.chunks[k].eof

RECURSIVE ChunkData(_)
ChunkData(n) == IF n = 0 THEN <<>> ELSE ChunkData(n - 1) \o traceStream.chunks[n].data

SessionPageOfOwnContext ==
    activeSession # NoSession =>
        /\ activeSession.page[1] = activeSession.sid
        /\ activeSession.metricsCdp[1] = activeSession.sid

\* C38: once a start call has failed after chromium.launch resolved, its
\* session is not the active one and the browser it launched has been
\* closed.
FailedStartClosesBrowser ==
    \A c \in Calls :
        (kind[c] = "start" /\ pc[c] = "done" /\ result[c] = "error" /\ browser[c] # "none") =>
            /\ activeSession.sid # c
            /\ browser[c] = "closed"

\* C40: whenever Animation.animationStarted is delivered to the handler of a
\* session, wherever its start call stands, the handler runs to its end and
\* appends one animation to the session's list.
AnimationHandlerAlwaysAppends ==
    [][\A s \in Calls :
          AnimationStarted(s) =>
              /\ recordingStartSet[s]
              /\ Len(collectedAnimations'[s]) = Len(collectedAnimations[s]) + 1]_vars

\* C39 helper: the sum of a field over the first n listed requests, a
\* request without the field counting 0.
RECURSIVE ListedSum(_, _)
ListedSum(n, field) ==
    IF n = 0 THEN 0
    ELSE ListedSum(n - 1, field)
           + (IF network.networkRequests[n][field] = Undefined
                THEN 0 ELSE network.networkRequests[n][field])

\* C39: in a report of either builder, networkSummary.requests is the
\* length of networkRequests, the list is the ledger of the request handlers
\* when that is not empty, and totalBytes and averageLatencyMs are the sum
\* of the sizes and the mean of the durations of the listed requests.
NetworkSummaryOfListedRequests ==
    stage = "summarised" =>
        LET n == Len(network.networkRequests)
        IN  /\ network.requests = n
            /\ networkRequests[1] # <<>> => network.networkRequests = networkRequests[1]
            /\ network.totalBytes = ListedSum(n, "transferSize")
            /\ network.averageLatencyMs =
                  IF n = 0 THEN 0 ELSE (ListedSum(n, "durationMs") * RatioSteps) \div n

====
